---- MODULE Spec2Model ----
(***************************************************************************)
(* Task Intelligence Heuristics Engine of the AI Task Manager backend:     *)
(* the five handlers of src/src/controllers/aiController.ts, the audit     *)
(* store ai_suggestions they insert into, and the generators they call.    *)
(*                                                                         *)
(* JavaScript values that may be absent are tagged records (Undefined,     *)
(* Null, Str, Num, NaN, DateStr).  A string is a sequence of atoms: an     *)
(* atom is a fragment of text that contains no keyword boundary, so that   *)
(* String.includes is contiguous-subsequence search ("debug" is the atoms  *)
(* "de","bug" and includes "bug").  Times are whole hours.  Fractions      *)
(* (confidence, multipliers) are hundredths.                               *)
(***************************************************************************)
EXTENDS Integers, Sequences, FiniteSets, TLC

----------------------------------------------------------------------------
(* Bounds of the model *)

\* number of invocation slots (requests that may be in flight together)
MaxInv == 2

----------------------------------------------------------------------------
(* JavaScript values *)

Undefined == [t |-> "undefined"]
Null == [t |-> "null"]
NaN == [t |-> "nan"]
Str(s) == [t |-> "str", v |-> s]
Num(n) == [t |-> "num", v |-> n]
\* a string that Date can parse, denoting the instant h (hours)
DateStr(h) == [t |-> "date", v |-> h]

\* ToBoolean: what `if (x)`, `!x` and `x || y` test
Truthy(x) ==
    CASE x.t = "undefined" -> FALSE
      [] x.t = "null" -> FALSE
      [] x.t = "nan" -> FALSE
      [] x.t = "str" -> x.v # << >>
      [] x.t = "num" -> x.v # 0
      [] OTHER -> TRUE

\* ToString as applied by `a + ' ' + b` to the values a request field can hold
ToText(x) ==
    CASE x.t = "undefined" -> <<"undefined">>
      [] x.t = "null" -> <<"null">>
      [] x.t = "str" -> x.v
      [] OTHER -> <<"value">>

\* title + ' ' + description
Combined(title, description) == ToText(title) \o <<" ">> \o ToText(description)

\* String.prototype.toLowerCase, atom by atom
LowerAtom(a) ==
    CASE a = "URGENT" -> "urgent"
      [] a = "Bug" -> "bug"
      [] a = "Minor" -> "minor"
      [] a = "API" -> "api"
      [] a = "UI" -> "ui"
      [] a = "Fix" -> "fix"
      [] OTHER -> a

ToLowerCase(s) == [i \in 1..Len(s) |-> LowerAtom(s[i])]

\* String.prototype.includes
Includes(s, k) ==
    \E i \in 0..(Len(s) - Len(k)) : \A j \in 1..Len(k) : s[i + j] = k[j]

----------------------------------------------------------------------------
(* Priority Scorer: calculatePrioritySuggestion *)

urgentKeywords ==
    { <<"urgent">>, <<"critical">>, <<"emergency">>, <<"asap">>,
      <<"immediately">>, <<"bug">>, <<"error">>, <<"broken">> }
highKeywords ==
    { <<"important">>, <<"major">>, <<"significant">>, <<"deadline">>,
      <<"client">>, <<"production">> }
lowKeywords ==
    { <<"nice", " ", "to", " ", "have">>, <<"enhancement">>, <<"minor">>,
      <<"cosmetic">>, <<"cleanup">> }

\* keywords.some(keyword => text.includes(keyword))
SomeIncluded(keywords, text) == \E k \in keywords : Includes(text, k)

HoursPerDay == 24

\* the if / else-if chain on the keyword sets (lines 519-521)
KeywordAdjustmentLowRaises(text) ==
    IF SomeIncluded(urgentKeywords, text) THEN 30
    ELSE IF SomeIncluded(highKeywords, text) THEN 20
    ELSE IF SomeIncluded(lowKeywords, text) THEN 25
    ELSE 0

\* every matching set contributing
KeywordAdjustmentSummed(text) ==
    (IF SomeIncluded(urgentKeywords, text) THEN 30 ELSE 0)
    + (IF SomeIncluded(highKeywords, text) THEN 20 ELSE 0)
    - (IF SomeIncluded(lowKeywords, text) THEN 20 ELSE 0)

KeywordAdjustment(text) ==
    IF SomeIncluded(urgentKeywords, text) THEN 30
    ELSE IF SomeIncluded(highKeywords, text) THEN 20
    ELSE IF SomeIncluded(lowKeywords, text) THEN 0 - 20
    ELSE 0

\* new Date(dueDate).getTime(): the instant, or NaN for an unparsable value
DateGetTime(d) == IF d.t = "date" THEN Num(d.v) ELSE NaN

\* (due.getTime() - now.getTime()) in hours; NaN when the date is invalid
HoursUntilDue(dueDate, now) ==
    LET g == DateGetTime(dueDate)
    IN  IF g.t = "num" THEN Num(g.v - now) ELSE NaN

\* the if / else-if chain on daysUntilDue (lines 524-533); every comparison
\* with NaN is false
DueDateAdjustmentNearLess(dueDate, now) ==
    IF ~Truthy(dueDate) THEN 0
    ELSE LET h == HoursUntilDue(dueDate, now)
         IN  IF h.t # "num" THEN 0
             ELSE IF h.v < 1 * HoursPerDay THEN 20
             ELSE IF h.v < 3 * HoursPerDay THEN 20
             ELSE IF h.v < 7 * HoursPerDay THEN 10
             ELSE IF h.v > 30 * HoursPerDay THEN 0 - 10
             ELSE 0

DueDateAdjustment(dueDate, now) ==
    IF ~Truthy(dueDate) THEN 0
    ELSE LET h == HoursUntilDue(dueDate, now)
         IN  IF h.t # "num" THEN 0
             ELSE IF h.v < 1 * HoursPerDay THEN 30
             ELSE IF h.v < 3 * HoursPerDay THEN 20
             ELSE IF h.v < 7 * HoursPerDay THEN 10
             ELSE IF h.v > 30 * HoursPerDay THEN 0 - 10
             ELSE 0

\* projectContext?.status === 'urgent' (line 536)
ProjectAdjustment(projectContext) ==
    IF projectContext.t = "row" /\ projectContext.status = "urgent" THEN 15 ELSE 0

\* lines 538-551
PriorityCategoryHighFrom75(score) ==
    IF score >= 80 THEN "urgent"
    ELSE IF score >= 75 THEN "high"
    ELSE IF score <= 30 THEN "low"
    ELSE "medium"

PriorityCategory(score) ==
    IF score >= 80 THEN "urgent"
    ELSE IF score >= 65 THEN "high"
    ELSE IF score <= 30 THEN "low"
    ELSE "medium"

CategoryReason(score) ==
    IF score >= 80 THEN <<"High urgency indicators detected">>
    ELSE IF score >= 65 THEN <<"Important task with high impact">>
    ELSE IF score <= 30 THEN <<"Low impact or enhancement task">>
    ELSE << >>

\* lines 553-556: the clock is read a second time (now2)
DueReason(dueDate, now2) ==
    IF ~Truthy(dueDate) THEN << >>
    ELSE LET h == HoursUntilDue(dueDate, now2)
         IN  IF h.t = "num" /\ h.v < 7 * HoursPerDay
             THEN <<"Due date approaching">> ELSE << >>

\* lines 510-536: the score before it is mapped to a category
PriorityScoreClamped(title, description, dueDate, projectContext, now1) ==
    LET raw == 50 + KeywordAdjustment(ToLowerCase(Combined(title, description)))
                  + DueDateAdjustment(dueDate, now1)
                  + ProjectAdjustment(projectContext)
    IN  IF raw > 100 THEN 100 ELSE IF raw < 0 THEN 0 ELSE raw

PriorityScore(title, description, dueDate, projectContext, now1) ==
    50 + KeywordAdjustment(ToLowerCase(Combined(title, description)))
       + DueDateAdjustment(dueDate, now1)
       + ProjectAdjustment(projectContext)

calculatePrioritySuggestion(title, description, dueDate, projectContext, now1, now2) ==
    LET text == ToLowerCase(Combined(title, description))
        score == PriorityScore(title, description, dueDate, projectContext, now1)
    IN  [ priority |-> PriorityCategory(score),
          confidence |-> 70,
          score |-> score,
          reasoning |-> CategoryReason(score) \o DueReason(dueDate, now2),
          factors |->
            [ keywordAnalysis |->
                IF SomeIncluded(urgentKeywords, text) THEN "urgent"
                ELSE IF SomeIncluded(highKeywords, text) THEN "high"
                ELSE "normal",
              dueDateProximity |->
                IF Truthy(dueDate) THEN "considered" ELSE "not_provided",
              projectContext |->
                IF Truthy(projectContext) THEN "available" ELSE "not_available" ] ]

----------------------------------------------------------------------------
(* Time Estimator: calculateTimeEstimation.  Hours are held in thousandths. *)

MilliPerHour == 1000

\* the number of ' ' separators an atom holds; "<w50>", "<w51>" and "<w101>"
\* stand for 50, 51 and 101 words joined by single spaces
SpacesIn(a) ==
    CASE a = " " -> 1
      [] a = "<w50>" -> 49
      [] a = "<w51>" -> 50
      [] a = "<w101>" -> 100
      [] OTHER -> 0

RECURSIVE SumSpaces(_)
SumSpaces(s) == IF s = << >> THEN 0 ELSE SpacesIn(Head(s)) + SumSpaces(Tail(s))

\* (title + ' ' + description).split(' ').length
WordCount(title, description) == SumSpaces(Combined(title, description)) + 1

\* the names every object literal inherits from Object.prototype: a lookup of
\* one of them yields a function or object, which is truthy and not a number
ObjectPrototypeKeys ==
    { <<"constructor">>, <<"toString">>, <<"valueOf">>, <<"hasOwnProperty">>,
      <<"__proto__">> }

\* table[key] || 1.0 in hundredths; NaN stands for the inherited non-number
LookupMultiplier(table, key) ==
    IF key.t = "str" /\ key.v \in DOMAIN table THEN Num(table[key.v])
    ELSE IF key.t = "str" /\ key.v \in ObjectPrototypeKeys THEN NaN
    ELSE Num(100)

priorityMultipliers ==
    ( <<"low">> :> 80 ) @@ ( <<"medium">> :> 100 ) @@ ( <<"high">> :> 130 )
      @@ ( <<"urgent">> :> 150 )

typeMultipliers ==
    ( <<"bug">> :> 70 ) @@ ( <<"feature">> :> 120 ) @@ ( <<"research">> :> 150 )
      @@ ( <<"documentation">> :> 80 ) @@ ( <<"testing">> :> 90 )
      @@ ( <<"general">> :> 100 )

\* a *= b with b in hundredths; NaN is absorbing
TimesHundredths(a, b) ==
    IF a.t = "num" /\ b.t = "num" THEN Num((a.v * b.v) \div 100) ELSE NaN

\* lines 457-477: base hours after the word-count, priority and type factors
BaseEstimate(title, description, priority, taskType) ==
    LET wc == WordCount(title, description)
        b0 == 4 + (IF wc > 50 THEN 2 ELSE 0) + (IF wc > 100 THEN 2 ELSE 0)
    IN  TimesHundredths(
            TimesHundredths(Num(b0 * MilliPerHour),
                            LookupMultiplier(priorityMultipliers, priority)),
            LookupMultiplier(typeMultipliers, taskType))

RECURSIVE SumElapsed(_)
SumElapsed(rows) ==
    IF rows = << >> THEN 0
    ELSE (Head(rows).completed_at - Head(rows).created_at) + SumElapsed(Tail(rows))

\* lines 480-489: the mean elapsed time of the sample, blended half and half
Blend(base, historicalTasks) ==
    IF Len(historicalTasks) > 0
    THEN IF base.t = "num"
         THEN Num((base.v + (SumElapsed(historicalTasks) * MilliPerHour)
                                \div Len(historicalTasks)) \div 2)
         ELSE NaN
    ELSE base

\* Math.floor(baseHours) and Math.round((baseHours - hours) * 60)
FloorHours(total) == IF total.t = "num" THEN Num(total.v \div MilliPerHour) ELSE NaN
RoundMinutes(total) ==
    IF total.t = "num"
    THEN Num((((total.v % MilliPerHour) * 60) + (MilliPerHour \div 2)) \div MilliPerHour)
    ELSE NaN

\* line 498
EstimateConfidenceAlways80(historicalTasks) == 80
EstimateConfidence(historicalTasks) == IF Len(historicalTasks) > 10 THEN 80 ELSE 60

calculateTimeEstimation(title, description, priority, taskType, historicalTasks) ==
    LET baseHours == Blend(BaseEstimate(title, description, priority, taskType),
                           historicalTasks)
    IN  [ hours |-> FloorHours(baseHours),
          minutes |-> RoundMinutes(baseHours),
          totalHours |-> baseHours,
          confidence |-> EstimateConfidence(historicalTasks),
          factors |->
            [ complexity |->
                IF WordCount(title, description) > 50 THEN "high" ELSE "medium",
              priority |-> priority,
              taskType |-> taskType,
              historicalDataPoints |-> Len(historicalTasks) ] ]

----------------------------------------------------------------------------
(* Assignee Ranker: calculateAssigneeSuggestions *)

Min(a, b) == IF a <= b THEN a ELSE b
Max(a, b) == IF a >= b THEN a ELSE b

\* Array.prototype.slice(0, n) for n >= 0
Slice(s, n) == SubSeq(s, 1, Min(n, Len(s)))

\* a count that adds one per check passed instead of one per skill kept
RECURSIVE MatchedSkillsBothChecks(_, _, _)
MatchedSkillsBothChecks(skillsRequired, text, username) ==
    IF skillsRequired = << >> THEN 0
    ELSE (IF Includes(text, ToLowerCase(Head(skillsRequired))) THEN 1 ELSE 0)
         + (IF Includes(ToLowerCase(username), ToLowerCase(Head(skillsRequired)))
            THEN 1 ELSE 0)
         + MatchedSkillsBothChecks(Tail(skillsRequired), text, username)

\* lines 592-595: skillsRequired.filter(...).length
RECURSIVE MatchedSkills(_, _, _)
MatchedSkills(skillsRequired, text, username) ==
    IF skillsRequired = << >> THEN 0
    ELSE (IF \/ Includes(text, ToLowerCase(Head(skillsRequired)))
             \/ Includes(ToLowerCase(username), ToLowerCase(Head(skillsRequired)))
          THEN 1 ELSE 0)
         + MatchedSkills(Tail(skillsRequired), text, username)

\* lines 575-597: the score of one member before the clamp
RawAssigneeScore(title, description, skillsRequired, member) ==
    LET text == ToLowerCase(Combined(title, description))
    IN  50 - member.activeTaskCount * 5
           + Min(member.totalTaskCount * 2, 20)
           + (IF member.role = "owner" THEN 10
              ELSE IF member.role = "admin" THEN 5 ELSE 0)
           + (IF Len(skillsRequired) > 0
              THEN MatchedSkills(skillsRequired, text, member.username) * 10
              ELSE 0)

\* a suggestion whose score is left as computed
AssigneeSuggestionUnclamped(title, description, skillsRequired, member) ==
    [ user |-> [ id |-> member.id, username |-> member.username ],
      score |-> RawAssigneeScore(title, description, skillsRequired, member),
      confidence |-> 60,
      reasons |-> << >>,
      workloadStatus |-> "light" ]

\* lines 599-617: the suggestion built for one member
AssigneeSuggestion(title, description, skillsRequired, member) ==
    [ user |-> [ id |-> member.id, username |-> member.username ],
      score |-> Max(0, Min(100, RawAssigneeScore(title, description,
                                                 skillsRequired, member))),
      confidence |-> 60,
      reasons |->
        << <<"Current workload", member.activeTaskCount>>,
           <<"Experience", member.totalTaskCount>>,
           <<"Role", member.role>> >>
        \o (IF Len(skillsRequired) > 0 THEN << <<"Skills", skillsRequired>> >>
            ELSE << >>),
      workloadStatus |->
        IF member.activeTaskCount < 3 THEN "light"
        ELSE IF member.activeTaskCount < 6 THEN "moderate" ELSE "heavy" ]

\* x placed in front of the elements of its own score
RECURSIVE InsertByScoreBeforeEqual(_, _)
InsertByScoreBeforeEqual(sorted, x) ==
    IF sorted = << >> THEN <<x>>
    ELSE IF Head(sorted).score > x.score
         THEN <<Head(sorted)>> \o InsertByScoreBeforeEqual(Tail(sorted), x)
         ELSE <<x>> \o sorted

\* x placed behind every element that does not score lower
RECURSIVE InsertByScore(_, _)
InsertByScore(sorted, x) ==
    IF sorted = << >> THEN <<x>>
    ELSE IF Head(sorted).score >= x.score
         THEN <<Head(sorted)>> \o InsertByScore(Tail(sorted), x)
         ELSE <<x>> \o sorted

\* .sort((a, b) => b.score - a.score): descending and stable
RECURSIVE SortByScore(_)
SortByScore(s) ==
    IF s = << >> THEN << >>
    ELSE InsertByScore(SortByScore(SubSeq(s, 1, Len(s) - 1)), s[Len(s)])

calculateAssigneeSuggestions(title, description, skillsRequired, workload, members) ==
    Slice(SortByScore([ i \in 1..Len(members) |->
              AssigneeSuggestion(title, description, skillsRequired, members[i]) ]),
          5)

----------------------------------------------------------------------------
(* Task Decomposer: generateTaskBreakdown.  Math.random() is a sequence rnd  *)
(* of draws in hundredths (0..99), consumed in call order.                  *)

\* the k-th value Math.random() returns during one call
Draw(rnd, k) == IF k <= Len(rnd) THEN rnd[k] ELSE 0

\* Math.floor(Math.random() * n) for the draw r
FloorTimes(r, n) == (r * n) \div 100

commonSubtasks ==
    << <<"Research and planning">>, <<"Design and architecture">>,
       <<"Implementation">>, <<"Testing">>, <<"Documentation">>,
       <<"Code review">>, <<"Deployment preparation">> >>

complexityMap ==
    ( <<"low">> :> 3 ) @@ ( <<"medium">> :> 5 ) @@ ( <<"high">> :> 7 )
      @@ ( <<"very_high">> :> 9 )

\* complexityMap[complexity] || 5; NaN stands for an inherited non-number
SubtaskCount(complexity) ==
    IF complexity.t = "str" /\ complexity.v \in DOMAIN complexityMap
    THEN Num(complexityMap[complexity.v])
    ELSE IF complexity.t = "str" /\ complexity.v \in ObjectPrototypeKeys THEN NaN
    ELSE Num(5)

Subtask(title, hours, priority) ==
    [ title |-> title, estimatedHours |-> hours, priority |-> priority ]

\* lines 651-673: the fixed subtasks each trigger appends
ContextualSubtasks(text) ==
    (IF Includes(text, <<"api">>) \/ Includes(text, <<"backend">>)
     THEN << Subtask(<<"Design API endpoints">>, 2, "high"),
             Subtask(<<"Implement backend logic">>, 4, "high"),
             Subtask(<<"Add error handling">>, 2, "medium") >>
     ELSE << >>)
    \o (IF Includes(text, <<"ui">>) \/ Includes(text, <<"frontend">>)
        THEN << Subtask(<<"Create UI mockups">>, 2, "medium"),
                Subtask(<<"Implement user interface">>, 4, "high"),
                Subtask(<<"Add responsive design">>, 2, "medium") >>
        ELSE << >>)
    \o (IF Includes(text, <<"data", "base">>) \/ Includes(text, <<"data">>)
        THEN << Subtask(<<"Design database schema">>, 2, "high"),
                Subtask(<<"Create migrations">>, 1, "high"),
                Subtask(<<"Optimize queries">>, 2, "medium") >>
        ELSE << >>)

\* the whole generic pool, whatever has been used
RemainingSubtasksAll(subtasks) == commonSubtasks

\* lines 677-679: the generic names no current subtask title includes
RemainingSubtasks(subtasks) ==
    SelectSeq(commonSubtasks,
        LAMBDA task :
            ~\E i \in 1..Len(subtasks) :
                Includes(ToLowerCase(subtasks[i].title), ToLowerCase(task)))

breakdownPriorities == <<"low", "medium", "high">>

\* lines 676-691: the fill loop; k is the number of draws already consumed
RECURSIVE FillSubtasks(_, _, _, _)
FillSubtasks(subtasks, count, rnd, k) ==
    IF ~(count.t = "num" /\ Len(subtasks) < count.v) THEN subtasks
    ELSE LET remaining == RemainingSubtasks(subtasks)
         IN  IF Len(remaining) = 0 THEN subtasks
             ELSE FillSubtasks(
                    Append(subtasks,
                        Subtask(remaining[FloorTimes(Draw(rnd, k + 1), Len(remaining)) + 1],
                                FloorTimes(Draw(rnd, k + 3), 4) + 1,
                                breakdownPriorities[FloorTimes(Draw(rnd, k + 2), 3) + 1])),
                    count, rnd, k + 3)

RECURSIVE SumHours(_)
SumHours(subtasks) ==
    IF subtasks = << >> THEN 0
    ELSE Head(subtasks).estimatedHours + SumHours(Tail(subtasks))

\* Array.prototype.slice(0, n): NaN counts as 0, a negative n counts from the end
JsSlice(s, n) ==
    IF n.t # "num" THEN << >>
    ELSE IF n.v >= 0 THEN Slice(s, n.v)
    ELSE Slice(s, Max(Len(s) + n.v, 0))

generateTaskBreakdown(title, description, complexity, rnd) ==
    LET subtaskCount == SubtaskCount(complexity)
        text == ToLowerCase(Combined(title, description))
        subtasks == FillSubtasks(ContextualSubtasks(text), subtaskCount, rnd, 0)
    IN  [ subtasks |-> JsSlice(subtasks, subtaskCount),
          totalEstimatedHours |-> SumHours(subtasks),
          complexity |-> complexity,
          confidence |-> 70,
          recommendations |->
            << "Start with high-priority subtasks",
               "Consider breaking down large subtasks further",
               "Review estimates after beginning work",
               "Update progress regularly" >> ]

----------------------------------------------------------------------------
(* Exploratory suggestions: generateTaskSuggestions.  The confidence of a    *)
(* suggestion is held in ten-thousandths.                                   *)

CommonTask(title, description, priority) ==
    [ title |-> title, description |-> description, priority |-> priority ]

commonTasks ==
    << CommonTask(<<"Setup project documentation">>,
          <<"Create comprehensive project documentation including README, API docs, and user guides">>,
          "high"),
       CommonTask(<<"Implement error handling">>,
          <<"Add comprehensive error handling throughout the application">>, "medium"),
       CommonTask(<<"Add unit tests">>,
          <<"Create unit tests for core functionality to ensure code quality">>, "high"),
       CommonTask(<<"Performance optimization">>,
          <<"Analyze and optimize application performance bottlenecks">>, "medium"),
       CommonTask(<<"Security audit">>,
          <<"Conduct security review and implement necessary security measures">>, "high"),
       CommonTask(<<"Database optimization">>,
          <<"Optimize database queries and add necessary indexes">>, "medium"),
       CommonTask(<<"User experience improvements">>,
          <<"Review and improve user interface and user experience">>, "medium"),
       CommonTask(<<"Code refactoring">>,
          <<"Refactor legacy code to improve maintainability and readability">>, "low"),
       CommonTask(<<"API documentation">>,
          <<"Create and maintain comprehensive API documentation">>, "medium"),
       CommonTask(<<"Backup and recovery setup">>,
          <<"Implement backup and disaster recovery procedures">>, "high") >>

TaskSuggestion(title, description, priority, hours, confidence) ==
    [ title |-> title, description |-> description, priority |-> priority,
      estimatedHours |-> hours, confidence |-> confidence ]

\* lines 420-438: the suggestions the context adds
ContextSuggestions(context) ==
    LET c == ToLowerCase(context)
    IN  (IF Includes(c, <<"bug">>) \/ Includes(c, <<"fix">>)
         THEN << TaskSuggestion(<<"Debug and fix reported issues">>,
                    <<"Investigate and resolve bugs related to: ">> \o context,
                    "high", 4, 8000) >>
         ELSE << >>)
        \o (IF Includes(c, <<"feature">>) \/ Includes(c, <<"new">>)
            THEN << TaskSuggestion(<<"Implement new feature">>,
                       <<"Develop new functionality: ">> \o context,
                       "medium", 8, 7000) >>
            ELSE << >>)

\* lines 442-450: the loop over the shuffled common tasks; `order` is the
\* permutation the shuffle produced, rnd the draws made inside the loop
RandomSuggestions(remainingSlots, order, rnd) ==
    IF remainingSlots.t # "num" THEN << >>
    ELSE [ i \in 1..Max(0, Min(remainingSlots.v, Len(commonTasks))) |->
             TaskSuggestion(commonTasks[order[i]].title,
                            commonTasks[order[i]].description,
                            commonTasks[order[i]].priority,
                            FloorTimes(Draw(rnd, 2 * i - 1), 8) + 1,
                            6000 + 30 * Draw(rnd, 2 * i)) ]

\* limit - suggestions.length
MinusLength(limit, s) == IF limit.t = "num" THEN Num(limit.v - Len(s)) ELSE NaN

generateTaskSuggestions(context, limit, order, rnd) ==
    LET suggestions == ContextSuggestions(context)
    IN  JsSlice(suggestions
                  \o RandomSuggestions(MinusLength(limit, suggestions), order, rnd),
                limit)

----------------------------------------------------------------------------
(* State *)

VARIABLES
    users,            \* table users
    projects,         \* table projects
    project_members,  \* table project_members
    tasks,            \* table tasks
    ai_suggestions,   \* table ai_suggestions: the audit store
    idSeq,            \* the id the store gives to the next inserted row
    inv,              \* the handler invocations, by arrival slot
    createdBy,        \* history: the slot whose insert wrote each record id
    gin,              \* the argument bundle of a generator called on its own
    gout              \* what that call returned; NotCalled before the call

tables == <<users, projects, project_members, tasks>>
handlerVars == <<users, projects, project_members, tasks, ai_suggestions, idSeq,
                 inv, createdBy>>
vars == <<users, projects, project_members, tasks, ai_suggestions, idSeq, inv,
          createdBy, gin, gout>>

NotCalled == [t |-> "not_called"]
NoResponse == [kind |-> "none"]

Slots == 1..MaxInv

----------------------------------------------------------------------------
(* The tables the handlers read *)

UserRow(id, username, active) ==
    [ id |-> id, username |-> username, is_active |-> active ]
MemberRow(project, user, role) ==
    [ project_id |-> project, user_id |-> user, role |-> role ]
TaskRow(id, project, status, created, completed, assignee) ==
    [ id |-> id, project_id |-> project, status |-> status,
      created_at |-> created, completed_at |-> completed, assigned_to |-> assignee ]

\* user 1 owns project 1, user 3 is a member of it, user 2 has no project;
\* project 2 has no member among them
InitUsers ==
    { UserRow(1, <<"alice">>, TRUE), UserRow(2, <<"bob">>, TRUE),
      UserRow(3, <<"carol">>, TRUE) }
InitProjects == { [ id |-> 1, status |-> "active" ], [ id |-> 2, status |-> "active" ] }
InitMembers == { MemberRow(1, 1, "owner"), MemberRow(1, 3, "member") }
InitTasks ==
    { TaskRow(1, 1, "done", 0, Num(2), 3), TaskRow(2, 1, "todo", 1, Null, 3),
      TaskRow(3, 1, "in_review", 1, Null, 1) }

\* Number(x) for the values a project id or a limit arrives as
ToNumber(x) ==
    CASE x.t = "num" -> x
      [] x.t = "str" /\ x.v = <<"1">> -> Num(1)
      [] x.t = "str" /\ x.v = <<"2">> -> Num(2)
      [] x.t = "str" /\ x.v = << >> -> Num(0)
      [] x.t = "null" -> Num(0)
      [] OTHER -> NaN

\* db('project_members').where({ project_id, user_id }).first()
MembershipOf(projectId, userId) ==
    { m \in project_members :
        ToNumber(projectId) = Num(m.project_id) /\ m.user_id = userId }

\* a set of rows as the sequence a query returns them in: descending key,
\* the row id deciding between equal keys
RECURSIVE RowsDescending(_, _)
RowsDescending(rows, key) ==
    IF rows = {} THEN << >>
    ELSE LET first == CHOOSE r \in rows :
                        \A q \in rows :
                            \/ key[r] > key[q]
                            \/ (key[r] = key[q] /\ r.id >= q.id)
         IN  <<first>> \o RowsDescending(rows \ {first}, key)

\* tasks joined with the caller's project_members rows
TasksOfMember(userId) ==
    { t \in tasks : \E m \in project_members :
                        m.project_id = t.project_id /\ m.user_id = userId }

\* a row of projects as the handler holds it
ProjectRow(status) == [t |-> "row", status |-> status]

\* how far the clock may advance between the two reads of one call
ClockDrift == { 0, 1 }

----------------------------------------------------------------------------
(* JSON.stringify, JSON.parse and res.json *)

\* a property whose value is undefined is left out
OmitUndefined(obj) == [ k \in { k \in DOMAIN obj : obj[k] # Undefined } |-> obj[k] ]

\* NaN is written as null
JsonNumber(x) == IF x.t = "nan" THEN Null ELSE x

JsonEstimation(e) ==
    [ e EXCEPT !.hours = JsonNumber(@), !.minutes = JsonNumber(@),
               !.totalHours = JsonNumber(@) ]

\* the text JSON.stringify produces for a value already free of undefined and NaN
JsonText(v) == [ json |-> v ]
JsonParse(text) == text.json

----------------------------------------------------------------------------
(* Requests *)

Array(s) == [ t |-> "array", v |-> s ]

\* req.body / req.query with every field absent
NoFields ==
    [ title |-> Undefined, description |-> Undefined, projectId |-> Undefined,
      priority |-> Undefined, taskType |-> Undefined, dueDate |-> Undefined,
      skillsRequired |-> Undefined, workload |-> Undefined,
      complexity |-> Undefined, context |-> Undefined, limit |-> Undefined ]

\* the default a destructuring pattern gives an absent field
OrDefault(x, d) == IF x = Undefined THEN d ELSE x

Call(handler, userId, req) == [ handler |-> handler, userId |-> userId, req |-> req ]

TitleGiven == Str(<<"Fix", " ", "API", " ", "Bug">>)

\* user 1 belongs to project 1 only, user 2 to no project
GetTaskSuggestionsCalls ==
    { Call("getTaskSuggestions", 1,
           [ NoFields EXCEPT !.limit = Num(2),
                             !.context = Str(<<"new", " ", "Bug">>) ]),
      Call("getTaskSuggestions", 1,
           [ NoFields EXCEPT !.limit = Num(1), !.projectId = Str(<<"1">>) ]),
      Call("getTaskSuggestions", 1, [ NoFields EXCEPT !.limit = Num(0) ]),
      Call("getTaskSuggestions", 1,
           [ NoFields EXCEPT !.limit = Num(2), !.projectId = Str(<<"2">>) ]),
      Call("getTaskSuggestions", 2, [ NoFields EXCEPT !.limit = Num(2) ]) }

EstimateTimeCalls ==
    { Call("estimateTime", 1, [ NoFields EXCEPT !.title = TitleGiven, !.priority = p ]) :
        p \in { Undefined, Str(<<"constructor">>) } }
    \cup { Call("estimateTime", 1, NoFields),
           Call("estimateTime", 2, [ NoFields EXCEPT !.title = Str(<< >>) ]) }

SuggestPriorityCalls ==
    { Call("suggestPriority", 1, [ NoFields EXCEPT !.title = TitleGiven, !.projectId = p,
                                                   !.dueDate = DateStr(12) ]) :
        p \in { Undefined, Num(1), Num(2) } }
    \cup { Call("suggestPriority", 2, [ NoFields EXCEPT !.title = Str(<< >>),
                                                        !.projectId = Num(2) ]) }

SuggestAssigneeCalls ==
    { Call("suggestAssignee", u, [ NoFields EXCEPT !.title = TitleGiven,
                                       !.projectId = Num(1),
                                       !.skillsRequired = Array(<< <<"api">> >>) ]) :
        u \in { 1, 2 } }
    \cup { Call("suggestAssignee", 1, [ NoFields EXCEPT !.title = TitleGiven ]),
           Call("suggestAssignee", 1, [ NoFields EXCEPT !.projectId = Num(1) ]),
           Call("suggestAssignee", 1, [ NoFields EXCEPT !.title = TitleGiven,
                                                        !.projectId = Num(2) ]) }

BreakdownTaskCalls ==
    { Call("breakdownTask", 1, [ NoFields EXCEPT !.title = TitleGiven, !.projectId = p,
                                                 !.complexity = Str(<<"low">>) ]) :
        p \in { Num(0), Num(2) } }
    \cup { Call("breakdownTask", 1, [ NoFields EXCEPT !.title = Null ]) }

\* the runs of one handler invocation: a shuffle and the draws that follow it
RandomOutcomes ==
    { [ order |-> <<1, 2, 3, 4, 5, 6, 7, 8, 9, 10>>,
        rnd |-> <<0, 0, 0, 0, 0, 0, 0, 0, 0>> ],
      [ order |-> <<10, 3, 1, 8, 2, 9, 4, 7, 5, 6>>,
        rnd |-> <<99, 50, 25, 75, 99, 0, 60, 30, 90>> ] }

----------------------------------------------------------------------------
(* Handler invocations.  The tables a handler reads are written by no       *)
(* operation of the engine, so its reads commute with every other step: a   *)
(* handler runs from the request to the start of its insert(s) in one step, *)
(* and each insert and the response after it are steps of their own.        *)

IdleInv ==
    [ pc |-> "idle", handler |-> "none", userId |-> 0, req |-> NoFields,
      queries |-> 0, locals |-> << >>, result |-> NotCalled, inserts |-> << >>,
      resp |-> NoResponse ]

\* throw new AppError(..., status) or a rejected query: the handler's catch
\* block logs and rethrows, so the invocation ends with that error
Thrown(error) == [ kind |-> "throw", error |-> error ]
\* res.json(body)
Sent(body) == [ kind |-> "json", status |-> 200, body |-> JsonText(body) ]

\* the invocation of call c ended with resp after `queries` queries
Ended(c, queries, resp) ==
    [ IdleInv EXCEPT !.pc = "done", !.handler = c.handler, !.userId = c.userId,
                     !.req = c.req, !.queries = queries, !.resp = resp ]

\* the first query of the handler (each handler that gets past its 400 check
\* reads before it writes) rejected
ReadFailed(c) == { Ended(c, 1, Thrown("DbError")) }

\* the values of one insert into ai_suggestions
SuggestionRowTaggedTask(userId, projectId, type, content, context) ==
    [ user_id |-> userId, project_id |-> projectId, suggestion_type |-> "task",
      content |-> content, context |-> context ]
SuggestionRow(userId, projectId, type, content, context) ==
    [ user_id |-> userId, project_id |-> projectId, suggestion_type |-> type,
      content |-> content, context |-> context ]

Pending(row) == [ s |-> "pending", row |-> row ]

\* the values the suggestion_type column of ai_suggestions is declared with
suggestionTypes == { "task_breakdown", "time_estimate", "priority", "assignee" }

\* the invocation of call c computed `result` and started one insert per row
InsertingTwice(c, reads, locals, result, rows) ==
    [ IdleInv EXCEPT !.pc = "insert", !.handler = c.handler, !.userId = c.userId,
                     !.req = c.req, !.queries = reads + 2 * Len(rows),
                     !.locals = locals, !.result = result,
                     !.inserts = [ k \in 1..2 * Len(rows) |->
                                     Pending(rows[((k - 1) % Len(rows)) + 1]) ] ]
Inserting(c, reads, locals, result, rows) ==
    [ IdleInv EXCEPT !.pc = "insert", !.handler = c.handler, !.userId = c.userId,
                     !.req = c.req, !.queries = reads + Len(rows),
                     !.locals = locals, !.result = result,
                     !.inserts = [ k \in 1..Len(rows) |-> Pending(rows[k]) ] ]

\* x || null
OrNull(x) == IF Truthy(x) THEN x ELSE Null

\* lines 105-107, 172-174, 245-247, 339-341: if (!title) throw 400
TitleRejectedNever(req) == FALSE
TitleRejected(req) == ~Truthy(req.title)

\* lines 22-24, 183-185, 254-256, 349-351: if (!membership) throw 403
AccessDeniedNever(projectId, userId) == FALSE
\* a check that looks the project up without the caller
AccessDeniedUnlessAnyMember(projectId, userId) ==
    { m \in project_members : ToNumber(projectId) = Num(m.project_id) } = {}
AccessDenied(projectId, userId) == MembershipOf(projectId, userId) = {}

\* lines 8-80: up to the inserts Promise.all starts, one per suggestion
getTaskSuggestions(c) ==
    LET r == c.req
        projectIds ==
          IF Truthy(r.projectId) THEN { ToNumber(r.projectId) }
          ELSE { Num(m.project_id) :
                   m \in { m \in project_members : m.user_id = c.userId } }
        existingTasks ==
          Slice(RowsDescending({ t \in tasks : Num(t.project_id) \in projectIds },
                               [ t \in tasks |-> t.created_at ]), 50)
        found == { p \in projects : Num(p.id) \in projectIds }
        context == OrDefault(r.context, Str(<< >>))
    IN  IF Truthy(r.projectId) /\ AccessDenied(r.projectId, c.userId)
        THEN { Ended(c, 1, Thrown("AppError403")) } \cup ReadFailed(c)
        ELSE IF projectIds = {}
        THEN { Ended(c, 1, Sent([ success |-> TRUE,
                   data |-> [ suggestions |-> << >>,
                              message |-> "No projects available for suggestions" ] ])) }
             \cup ReadFailed(c)
        ELSE { LET suggestions ==
                     generateTaskSuggestions(ToText(context),
                         ToNumber(OrDefault(r.limit, Num(5))), o.order, o.rnd)
                   rows ==
                     [ k \in 1..Len(suggestions) |->
                         SuggestionRow(c.userId,
                             IF Truthy(r.projectId) THEN ToNumber(r.projectId) ELSE Null,
                             "task", JsonText(suggestions[k]), OrNull(context)) ]
               IN  Inserting(c, 3,
                       [ projectCount |-> Cardinality(found),
                         existingTaskCount |-> Len(existingTasks) ],
                       suggestions, rows) :
                 o \in RandomOutcomes }
             \cup ReadFailed(c)

\* an estimator that treats the task as urgent once the store holds a record
estimateTimeRemembering(c) ==
    LET r == c.req
        priority == IF ai_suggestions = {} THEN OrDefault(r.priority, Str(<<"medium">>))
                    ELSE Str(<<"urgent">>)
        taskType == OrDefault(r.taskType, Str(<<"general">>))
        estimation == calculateTimeEstimation(r.title, r.description, priority,
                                              taskType, << >>)
    IN  IF TitleRejected(r) THEN { Ended(c, 0, Thrown("AppError400")) }
        ELSE { Inserting(c, 1, << >>, estimation,
                   << SuggestionRow(c.userId, Null, "time_estimation",
                                    JsonText([ estimation |-> JsonEstimation(estimation) ]),
                                    Null) >>) }
             \cup ReadFailed(c)

\* lines 100-148: up to the insert
estimateTime(c) ==
    LET r == c.req
        done == { t \in TasksOfMember(c.userId) :
                    t.status = "done" /\ t.completed_at # Null }
        sorted == Slice(RowsDescending(done, [ t \in done |-> t.completed_at.v ]), 100)
        completedTasks ==
          [ k \in 1..Len(sorted) |->
              [ created_at |-> sorted[k].created_at,
                completed_at |-> sorted[k].completed_at.v ] ]
        priority == OrDefault(r.priority, Str(<<"medium">>))
        taskType == OrDefault(r.taskType, Str(<<"general">>))
        estimation == calculateTimeEstimation(r.title, r.description, priority,
                                              taskType, completedTasks)
        content ==
          JsonText(OmitUndefined([ title |-> r.title, description |-> r.description,
                                   priority |-> priority, taskType |-> taskType ])
                   @@ [ estimation |-> JsonEstimation(estimation) ])
    IN  IF TitleRejected(r) THEN { Ended(c, 0, Thrown("AppError400")) }
        ELSE { Inserting(c, 1, << >>, estimation,
                   << SuggestionRow(c.userId, Null, "time_estimation", content, Null) >>) }
             \cup ReadFailed(c)

\* lines 167-223: up to the insert
suggestPriority(c) ==
    LET r == c.req
        rows == { p \in projects : Num(p.id) = ToNumber(r.projectId) }
        projectContext ==
          IF ~Truthy(r.projectId) THEN Null
          ELSE IF rows = {} THEN Undefined
          ELSE ProjectRow((CHOOSE p \in rows : TRUE).status)
        \* membership and project rows if a project is named, then the tasks
        reads == IF Truthy(r.projectId) THEN 3 ELSE 1
    IN  IF TitleRejected(r) THEN { Ended(c, 0, Thrown("AppError400")) }
        ELSE IF Truthy(r.projectId) /\ AccessDenied(r.projectId, c.userId)
        THEN { Ended(c, 1, Thrown("AppError403")) } \cup ReadFailed(c)
        ELSE { LET prioritySuggestion ==
                     calculatePrioritySuggestion(r.title, r.description, r.dueDate,
                                                 projectContext, 0, d)
                   content ==
                     JsonText(OmitUndefined([ title |-> r.title,
                                              description |-> r.description,
                                              dueDate |-> r.dueDate ])
                              @@ [ suggestion |-> prioritySuggestion ])
               IN  Inserting(c, reads, << >>, prioritySuggestion,
                       << SuggestionRow(c.userId, OrNull(r.projectId), "priority",
                                        content, Null) >>) :
                 d \in ClockDrift }
             \cup ReadFailed(c)

\* the orders in which a query without ORDER BY may return a set of rows
RowOrders(rows) ==
    { q \in [ 1..Cardinality(rows) -> rows ] :
        \A a, b \in 1..Cardinality(rows) : a # b => q[a] # q[b] }

\* lines 275-282: the two counts taken for one member
ActiveTaskCount(memberId) ==
    Cardinality({ t \in tasks :
        t.assigned_to = memberId /\ t.status \in { "todo", "in_progress" } })
TotalTaskCount(memberId) ==
    Cardinality({ t \in tasks : t.assigned_to = memberId })

\* lines 240-316: up to the insert
suggestAssignee(c) ==
    LET r == c.req
        roster ==
          { [ member |-> m, user |-> u ] :
              m \in { m \in project_members : Num(m.project_id) = ToNumber(r.projectId) },
              u \in { u \in users : u.is_active } }
        joined == { j \in roster : j.member.user_id = j.user.id }
        skillsRequired == OrDefault(r.skillsRequired, Array(<< >>))
        workload == OrDefault(r.workload, Str(<<"normal">>))
        reads == 2 + 2 * Cardinality(joined)
    IN  IF TitleRejected(r) \/ ~Truthy(r.projectId)
        THEN { Ended(c, 0, Thrown("AppError400")) }
        ELSE IF AccessDenied(r.projectId, c.userId)
        THEN { Ended(c, 1, Thrown("AppError403")) } \cup ReadFailed(c)
        ELSE { LET memberWorkloads ==
                     [ k \in 1..Len(q) |->
                         [ id |-> q[k].user.id, username |-> q[k].user.username,
                           role |-> q[k].member.role,
                           activeTaskCount |-> ActiveTaskCount(q[k].user.id),
                           totalTaskCount |-> TotalTaskCount(q[k].user.id) ] ]
                   assigneeSuggestions ==
                     calculateAssigneeSuggestions(r.title, r.description,
                         skillsRequired.v, workload, memberWorkloads)
                   content ==
                     JsonText(OmitUndefined([ title |-> r.title,
                                              description |-> r.description,
                                              skillsRequired |-> skillsRequired,
                                              workload |-> workload ])
                              @@ [ suggestions |-> assigneeSuggestions ])
               IN  Inserting(c, reads, [ projectMemberCount |-> Len(q) ],
                       assigneeSuggestions,
                       << SuggestionRow(c.userId, r.projectId, "assignee",
                                        content, Null) >>) :
                 q \in RowOrders(joined) }
             \cup ReadFailed(c)

\* lines 334-384: up to the insert
breakdownTask(c) ==
    LET r == c.req
        complexity == OrDefault(r.complexity, Str(<<"medium">>))
        \* the membership row if a project is named, then the tasks
        reads == IF Truthy(r.projectId) THEN 2 ELSE 1
    IN  IF TitleRejected(r) THEN { Ended(c, 0, Thrown("AppError400")) }
        ELSE IF Truthy(r.projectId) /\ AccessDenied(r.projectId, c.userId)
        THEN { Ended(c, 1, Thrown("AppError403")) } \cup ReadFailed(c)
        ELSE { LET breakdown ==
                     generateTaskBreakdown(r.title, r.description, complexity, o.rnd)
                   content ==
                     JsonText(OmitUndefined([ title |-> r.title,
                                              description |-> r.description,
                                              complexity |-> complexity ])
                              @@ [ breakdown |-> breakdown ])
               IN  Inserting(c, reads, << >>, breakdown,
                       << SuggestionRow(c.userId, OrNull(r.projectId),
                                        "task_breakdown", content, Null) >>) :
                 o \in RandomOutcomes }
             \cup ReadFailed(c)

\* a request arrives in the first free slot
Arrives(i) ==
    /\ inv[i].pc = "idle"
    /\ \A j \in Slots : j < i => inv[j].pc # "idle"

\* a request is handled in slot i up to the start of its insert(s), or to its
\* end where the handler ends earlier
GetTaskSuggestions(i) ==
    /\ Arrives(i)
    /\ \E c \in GetTaskSuggestionsCalls : \E v \in getTaskSuggestions(c) : inv' = [ inv EXCEPT ![i] = v ]
    /\ UNCHANGED <<tables, ai_suggestions, idSeq, createdBy, gin, gout>>

EstimateTime(i) ==
    /\ Arrives(i)
    /\ \E c \in EstimateTimeCalls : \E v \in estimateTime(c) : inv' = [ inv EXCEPT ![i] = v ]
    /\ UNCHANGED <<tables, ai_suggestions, idSeq, createdBy, gin, gout>>

SuggestPriority(i) ==
    /\ Arrives(i)
    /\ \E c \in SuggestPriorityCalls : \E v \in suggestPriority(c) : inv' = [ inv EXCEPT ![i] = v ]
    /\ UNCHANGED <<tables, ai_suggestions, idSeq, createdBy, gin, gout>>

SuggestAssignee(i) ==
    /\ Arrives(i)
    /\ \E c \in SuggestAssigneeCalls : \E v \in suggestAssignee(c) : inv' = [ inv EXCEPT ![i] = v ]
    /\ UNCHANGED <<tables, ai_suggestions, idSeq, createdBy, gin, gout>>

BreakdownTask(i) ==
    /\ Arrives(i)
    /\ \E c \in BreakdownTaskCalls : \E v \in breakdownTask(c) : inv' = [ inv EXCEPT ![i] = v ]
    /\ UNCHANGED <<tables, ai_suggestions, idSeq, createdBy, gin, gout>>

\* .insert(row).returning('*') succeeds: the store commits the row under a
\* fresh id and the awaiting code receives the record
Inserted(id) == [ s |-> "ok", id |-> id ]

StoreAfterInsertOverwriting(store, id, row) ==
    { r \in store : r.user_id # row.user_id } \cup { [ id |-> id ] @@ row }
StoreAfterInsert(store, id, row) == store \cup { [ id |-> id ] @@ row }

\* the primary key of the row after the one that got `id`: never a key in use
NextIdSame(id) == id
NextId(id) == id + 1

InsertCommits(i, k) ==
    /\ k \in 1..Len(inv[i].inserts)
    /\ inv[i].inserts[k].s = "pending"
    /\ ai_suggestions' = StoreAfterInsert(ai_suggestions, idSeq, inv[i].inserts[k].row)
    /\ idSeq' = NextId(idSeq)
    /\ createdBy' = createdBy @@ (idSeq :> i)
    /\ inv' = [ inv EXCEPT ![i].inserts[k] = Inserted(idSeq) ]
    /\ UNCHANGED <<tables, gin, gout>>

\* the insert rejects: nothing is stored; the first rejection ends the
\* invocation with that error (Promise.all rejects at once, the inserts
\* already started are not cancelled)
\* the response after an insert rejected: the error, unless one was thrown before
AfterRejectionSilent(resp) == resp
AfterRejection(resp) == IF resp = NoResponse THEN Thrown("DbError") ELSE resp

InsertFails(i, k) ==
    /\ k \in 1..Len(inv[i].inserts)
    /\ inv[i].inserts[k].s = "pending"
    /\ inv' = [ inv EXCEPT ![i].inserts[k] = [ s |-> "failed" ],
                           ![i].pc = "done",
                           ![i].resp = AfterRejection(@) ]
    /\ UNCHANGED <<tables, ai_suggestions, idSeq, createdBy, gin, gout>>

\* record.id as the code after the await reads it (0: no record was received)
RecordIdOfNone(insert) == 0
RecordId(insert) == IF insert.s = "ok" THEN insert.id ELSE 0

\* the `data` member of the success response of each handler
ResponseData(v) ==
    CASE v.handler = "getTaskSuggestions" ->
           [ suggestions |->
               [ k \in 1..Len(v.result) |->
                   [ id |-> RecordId(v.inserts[k]) ] @@ v.result[k] ],
             context |-> v.locals ]
      [] v.handler = "estimateTime" ->
           [ estimation |-> JsonEstimation(v.result),
             confidence |-> v.result.confidence,
             factors |-> v.result.factors,
             suggestionId |-> RecordId(v.inserts[1]) ]
      [] v.handler = "suggestPriority" ->
           [ suggestionId |-> RecordId(v.inserts[1]) ] @@ v.result
      [] v.handler = "suggestAssignee" ->
           [ suggestions |-> v.result,
             projectMemberCount |-> v.locals.projectMemberCount,
             suggestionId |-> RecordId(v.inserts[1]) ]
      [] v.handler = "breakdownTask" ->
           [ suggestionId |-> RecordId(v.inserts[1]) ] @@ v.result

\* the code after `await` (or after Promise.all) runs once every insert it
\* waits for has returned its record
InsertsAwaitedNot(v) == TRUE
InsertsAwaited(v) == \A k \in 1..Len(v.inserts) : v.inserts[k].s = "ok"

\* lines 82-93, 150-160, 225-233, 318-327, 386-394: res.json
Respond(i) ==
    /\ inv[i].pc = "insert"
    /\ InsertsAwaited(inv[i])
    /\ inv' = [ inv EXCEPT ![i].pc = "done",
                  ![i].resp = Sent([ success |-> TRUE, data |-> ResponseData(inv[i]) ]) ]
    /\ UNCHANGED <<tables, ai_suggestions, idSeq, createdBy, gin, gout>>

InitStore ==
    /\ users = InitUsers
    /\ projects = InitProjects
    /\ project_members = InitMembers
    /\ tasks = InitTasks
    /\ ai_suggestions = {}
    /\ idSeq = 1
    /\ inv = [ i \in Slots |-> IdleInv ]
    /\ createdBy = [ id \in {} |-> 0 ]

Init ==
    /\ InitStore
    /\ gin = NotCalled
    /\ gout = NotCalled

Next ==
    \E i \in Slots :
        \/ GetTaskSuggestions(i)
        \/ EstimateTime(i)
        \/ SuggestPriority(i)
        \/ SuggestAssignee(i)
        \/ BreakdownTask(i)
        \/ \E k \in 1..Len(inv[i].inserts) : InsertCommits(i, k)
        \/ \E k \in 1..Len(inv[i].inserts) : InsertFails(i, k)
        \/ Respond(i)

Spec == Init /\ [][Next]_vars

----------------------------------------------------------------------------
(* The Priority Scorer as a function of its arguments *)

PriorityTitles ==
    { Str(<<"Fix">>), Str(<<"URGENT", " ", "Fix">>), Str(<<"de", "bug">>),
      Str(<<"Minor">>), Str(<<"nice", " ", "to">>),
      Str(<<"minor", " ", "bug">>), Str(<<"major", " ", "cleanup">>),
      Str(<<"critical", " ", "client", " ", "cleanup">>) }

PriorityDescriptions == { Undefined, Str(<<"have">>) }

\* hours from the clock reading to the due instant
DueOffsets == { 0 - 5, 12, 23, 24, 71, 72, 167, 168, 720, 721 }

PriorityDueDates ==
    { Undefined, Null, Str(<<"soon">>) } \cup { DateStr(h) : h \in DueOffsets }

PriorityContexts == { Null, ProjectRow("active"), ProjectRow("urgent") }

PriorityInputs ==
    [ title : PriorityTitles, description : PriorityDescriptions,
      dueDate : PriorityDueDates, projectContext : PriorityContexts ]

InitPriority ==
    /\ InitStore
    /\ gin \in PriorityInputs
    /\ gout = NotCalled

ScorePriority ==
    /\ gout = NotCalled
    /\ \E d \in ClockDrift :
         gout' = calculatePrioritySuggestion(gin.title, gin.description,
                     gin.dueDate, gin.projectContext, 0, d)
    /\ UNCHANGED <<handlerVars, gin>>

NextPriority == ScorePriority

SpecPriority == InitPriority /\ [][NextPriority]_vars

----------------------------------------------------------------------------
(* The Time Estimator as a function of its arguments *)

EstimateTitles ==
    { Str(<<"Implement", " ", "user", " ", "authentication">>),
      Str(<<"<w50>">>), Str(<<"<w51>">>), Str(<<"<w101>">>) }

\* an absent description is concatenated as the word "undefined"
EstimateDescriptions == { Undefined, Str(<< >>), Str(<<"with", " ", "tests">>) }

EstimatePriorities ==
    { Str(<<"low">>), Str(<<"medium">>), Str(<<"high">>), Str(<<"urgent">>),
      Str(<<"whenever">>), Str(<<"constructor">>) }

EstimateTaskTypes ==
    { Str(<<"bug">>), Str(<<"feature">>), Str(<<"general">>), Str(<<"chore">>),
      Str(<<"toString">>) }

\* a sample of n completed tasks, the k-th of which took k hours
HistoricalSample(n) == [ k \in 1..n |-> [ created_at |-> 0, completed_at |-> k ] ]

\* and a sample of four tasks that took 1, 2, 2 and 2 hours
EstimateSamples ==
    { HistoricalSample(n) : n \in { 0, 1, 10, 11, 12 } }
      \cup { [ k \in 1..4 |-> [ created_at |-> 0,
                                 completed_at |-> IF k = 1 THEN 1 ELSE 2 ] ] }

EstimateInputs ==
    [ title : EstimateTitles, description : EstimateDescriptions,
      priority : EstimatePriorities, taskType : EstimateTaskTypes,
      historicalTasks : EstimateSamples ]

InitEstimate ==
    /\ InitStore
    /\ gin \in EstimateInputs
    /\ gout = NotCalled

EstimateOnce ==
    /\ gout = NotCalled
    /\ gout' = calculateTimeEstimation(gin.title, gin.description, gin.priority,
                                       gin.taskType, gin.historicalTasks)
    /\ UNCHANGED <<handlerVars, gin>>

NextEstimate == EstimateOnce

SpecEstimate == InitEstimate /\ [][NextEstimate]_vars

----------------------------------------------------------------------------
(* The Assignee Ranker as a function of its arguments *)

Candidate(id, username, role, active, total) ==
    [ id |-> id, username |-> username, role |-> role,
      activeTaskCount |-> active, totalTaskCount |-> total ]

\* the candidates the rosters are drawn from, some with very large counts
CandidatePool ==
    << Candidate(1, <<"ann">>, "member", 0, 50),
       Candidate(2, <<"bo">>, "member", 10, 5),
       Candidate(3, <<"api", "dev">>, "owner", 0, 0),
       Candidate(4, <<"dan">>, "admin", 1000000, 0),
       Candidate(5, <<"eve">>, "member", 0, 1000000),
       Candidate(6, <<"fay">>, "member", 0, 50),
       Candidate(7, <<"gus">>, "owner", 0, 10) >>

\* the pool read from its k-th candidate on, wrapping around
Rotated(k) ==
    [ i \in 1..Len(CandidatePool) |->
        CandidatePool[((i + k - 1) % Len(CandidatePool)) + 1] ]

AssigneeRosters ==
    { SubSeq(Rotated(k), 1, n) :
        k \in 0..(Len(CandidatePool) - 1), n \in 0..Len(CandidatePool) }

AssigneeTitles == { Str(<<"Fix", " ", "API", " ", "bug">>) }

AssigneeDescriptions == { Undefined, Str(<<"ask", " ", "gus">>) }

AssigneeSkills ==
    { << >>, << <<"api">> >>, << <<"API">> >>, << <<"dev">> >>, << <<"ui">> >>,
      << <<"gus">> >>, << <<"api">>, <<"api">> >>,
      << <<"api">>, <<"fix">>, <<"bug">> >> }

AssigneeInputs ==
    [ title : AssigneeTitles, description : AssigneeDescriptions,
      skillsRequired : AssigneeSkills, workload : { Str(<<"normal">>) },
      members : AssigneeRosters ]

InitAssignee ==
    /\ InitStore
    /\ gin \in AssigneeInputs
    /\ gout = NotCalled

RankOnce ==
    /\ gout = NotCalled
    /\ gout' = Array(calculateAssigneeSuggestions(gin.title, gin.description,
                          gin.skillsRequired, gin.workload, gin.members))
    /\ UNCHANGED <<handlerVars, gin>>

NextAssignee == RankOnce

SpecAssignee == InitAssignee /\ [][NextAssignee]_vars

----------------------------------------------------------------------------
(* The Task Decomposer as a function of its arguments and of the draws *)

\* the largest number of Math.random() calls one decomposition can make
MaxDraws == 27

\* titles firing no trigger, one, two and all three
BreakdownTitles ==
    { Str(<<"Build", " ", "login", " ", "page">>),
      Str(<<"Build", " ", "REST", " ", "API">>),
      Str(<<"API", " ", "and", " ", "UI">>),
      Str(<<"Backend", " ", "with", " ", "frontend", " ", "and", " ", "data", "base">>) }

BreakdownDescriptions == { Undefined, Str(<<"for", " ", "the", " ", "data", " ", "team">>) }

BreakdownComplexities ==
    { Str(<<"low">>), Str(<<"medium">>), Str(<<"high">>), Str(<<"very_high">>),
      Str(<<"extreme">>), Str(<<"constructor">>) }

\* sequences of draws in hundredths: constant ones and ones that sweep 0..99
BreakdownDraws ==
    { [ i \in 1..MaxDraws |-> (a * i + b) % 100 ] :
        a \in { 0, 7, 37 }, b \in { 0, 99 } }

BreakdownInputs ==
    [ title : BreakdownTitles, description : BreakdownDescriptions,
      complexity : BreakdownComplexities, rnd : BreakdownDraws ]

InitBreakdown ==
    /\ InitStore
    /\ gin \in BreakdownInputs
    /\ gout = NotCalled

DecomposeOnce ==
    /\ gout = NotCalled
    /\ gout' = generateTaskBreakdown(gin.title, gin.description, gin.complexity,
                                     gin.rnd)
    /\ UNCHANGED <<handlerVars, gin>>

NextBreakdown == DecomposeOnce

SpecBreakdown == InitBreakdown /\ [][NextBreakdown]_vars

----------------------------------------------------------------------------
(* The exploratory suggestions as a function of Number(limit), the context  *)
(* and the random outcome                                                   *)

InitSuggestions ==
    /\ InitStore
    /\ gin \in [ context : { << >>, <<"new", " ", "Bug">>, <<"fix">>, <<"feature">> },
                  limit : { Num(0 - 1), Num(0), Num(1), Num(5), Num(10), Num(11),
                            Num(12), Num(100), NaN },
                  outcome : RandomOutcomes ]
    /\ gout = NotCalled

SuggestOnce ==
    /\ gout = NotCalled
    /\ gout' = Array(generateTaskSuggestions(gin.context, gin.limit,
                          gin.outcome.order, gin.outcome.rnd))
    /\ UNCHANGED <<handlerVars, gin>>

SpecSuggestions == InitSuggestions /\ [][SuggestOnce]_vars

----------------------------------------------------------------------------
(* The AI router, mounted at /api/ai.  A request is its method, its path    *)
(* below the mount point and its token: absent, one jwt.verify rejects, or  *)
(* a signed token carrying a user id.                                       *)

aiRoutes ==
    << [ method |-> "POST", path |-> "/task-suggestions", handler |-> "getTaskSuggestions" ],
       [ method |-> "POST", path |-> "/time-estimate", handler |-> "estimateTime" ],
       [ method |-> "POST", path |-> "/priority-suggestion", handler |-> "suggestPriority" ],
       [ method |-> "POST", path |-> "/assignee-suggestion", handler |-> "suggestAssignee" ],
       [ method |-> "POST", path |-> "/task-breakdown", handler |-> "breakdownTask" ] >>

\* the middleware lets a request through when its token verifies and names
\* an active user
authenticate(token) ==
    /\ token.t = "jwt"
    /\ \E u \in users : u.id = token.id /\ u.is_active

InitRoutes ==
    /\ InitStore
    /\ gin \in [ method : { "GET", "POST" },
                  path : { "/task-suggestions", "/estimate-time", "/suggest-priority",
                           "/suggest-assignee", "/breakdown-task", "/time-estimate",
                           "/priority-suggestion", "/assignee-suggestion",
                           "/task-breakdown" },
                  token : { Undefined, [ t |-> "malformed" ],
                            [ t |-> "jwt", id |-> 1 ], [ t |-> "jwt", id |-> 9 ] } ]
    /\ gout = NotCalled

\* router.use(authenticate), then the first route matching method and path,
\* else the application's 404 handler
RouteOnce ==
    /\ gout = NotCalled
    /\ gout' =
         IF ~authenticate(gin.token) THEN [ status |-> 401, handler |-> "none" ]
         ELSE LET hits == SelectSeq(aiRoutes,
                             LAMBDA r : r.method = gin.method /\ r.path = gin.path)
              IN  IF hits = << >> THEN [ status |-> 404, handler |-> "none" ]
                  ELSE [ status |-> 0, handler |-> Head(hits).handler ]
    /\ UNCHANGED <<handlerVars, gin>>

SpecRoutes == InitRoutes /\ [][RouteOnce]_vars

----------------------------------------------------------------------------
(* The Task Decomposer's fill loop, one iteration per step.  gout holds the *)
(* working list and the number of draws consumed from the loop's entry on.  *)

\* lines 625-673: the working list when the loop is entered
InitFill ==
    /\ InitStore
    /\ gin \in BreakdownInputs
    /\ gout = [ t |-> "loop", draws |-> 0,
                subtasks |-> ContextualSubtasks(
                               ToLowerCase(Combined(gin.title, gin.description))) ]

\* an iteration that draws from the whole pool, used or not
FillIterationAnyItem ==
    /\ gout.t = "loop"
    /\ SubtaskCount(gin.complexity).t = "num"
    /\ Len(gout.subtasks) < SubtaskCount(gin.complexity).v
    /\ gout' = [ gout EXCEPT
                   !.subtasks = Append(@,
                       Subtask(commonSubtasks[FloorTimes(Draw(gin.rnd, gout.draws + 1),
                                                         Len(commonSubtasks)) + 1],
                               FloorTimes(Draw(gin.rnd, gout.draws + 3), 4) + 1,
                               breakdownPriorities[
                                   FloorTimes(Draw(gin.rnd, gout.draws + 2), 3) + 1])),
                   !.draws = @ + 3 ]
    /\ UNCHANGED <<handlerVars, gin>>

\* lines 676-691: the loop condition holds, the pool is not exhausted, one
\* subtask is pushed
FillIteration ==
    /\ gout.t = "loop"
    /\ SubtaskCount(gin.complexity).t = "num"
    /\ Len(gout.subtasks) < SubtaskCount(gin.complexity).v
    /\ Len(RemainingSubtasks(gout.subtasks)) # 0
    /\ LET remaining == RemainingSubtasks(gout.subtasks)
       IN  gout' = [ gout EXCEPT
                       !.subtasks = Append(@,
                           Subtask(remaining[FloorTimes(Draw(gin.rnd, gout.draws + 1),
                                                        Len(remaining)) + 1],
                                   FloorTimes(Draw(gin.rnd, gout.draws + 3), 4) + 1,
                                   breakdownPriorities[
                                       FloorTimes(Draw(gin.rnd, gout.draws + 2), 3) + 1])),
                       !.draws = @ + 3 ]
    /\ UNCHANGED <<handlerVars, gin>>

\* lines 676, 681, 693-706: the loop condition fails or the pool is
\* exhausted, and the result is returned
FillLeaves ==
    /\ gout.t = "loop"
    /\ IF SubtaskCount(gin.complexity).t # "num" THEN TRUE
       ELSE IF Len(gout.subtasks) >= SubtaskCount(gin.complexity).v THEN TRUE
       ELSE Len(RemainingSubtasks(gout.subtasks)) = 0
    /\ gout' = [ t |-> "returned",
                 draws |-> gout.draws,
                 result |->
                   [ subtasks |-> JsSlice(gout.subtasks, SubtaskCount(gin.complexity)),
                     totalEstimatedHours |-> SumHours(gout.subtasks) ] ]
    /\ UNCHANGED <<handlerVars, gin>>

\* the loop is synchronous code: once entered it runs to its end
SpecFill ==
    /\ InitFill
    /\ [][FillIteration \/ FillLeaves]_vars
    /\ WF_vars(FillIteration \/ FillLeaves)

----------------------------------------------------------------------------
(* Claims about the handlers and the audit store *)

ClaimSucceeded(i) == inv[i].resp.kind = "json"
ClaimFailed(i) == inv[i].resp.kind = "throw"
ClaimData(i) == JsonParse(inv[i].resp.body).data

\* the suggestion ids a success response carries
ClaimReturnedIds(i) ==
    IF inv[i].handler = "getTaskSuggestions"
    THEN { ClaimData(i).suggestions[k].id : k \in 1..Len(ClaimData(i).suggestions) }
    ELSE { ClaimData(i).suggestionId }

\* the records in the store that invocation i wrote
ClaimRecordsOf(i) == { r \in ai_suggestions : createdBy[r.id] = i }

ClaimInsertFailed(i) ==
    \E k \in 1..Len(inv[i].inserts) : inv[i].inserts[k].s = "failed"

ClaimTypeOf(handler) ==
    CASE handler = "getTaskSuggestions" -> "task"
      [] handler = "estimateTime" -> "time_estimation"
      [] handler = "suggestPriority" -> "priority"
      [] handler = "suggestAssignee" -> "assignee"
      [] handler = "breakdownTask" -> "task_breakdown"

ClaimWithout(rec, field) == [ f \in DOMAIN rec \ { field } |-> rec[f] ]

\* C1: whenever a handler has sent a success response, every suggestion id
\* in it is the id of a record already in the audit store, and every insert
\* of that invocation had completed
C1_ResultAfterCommit ==
    \A i \in Slots :
        ClaimSucceeded(i) =>
            /\ \A k \in 1..Len(inv[i].inserts) : inv[i].inserts[k].s = "ok"
            /\ \A id \in ClaimReturnedIds(i) : \E r \in ai_suggestions : r.id = id

\* a multi-record and a single-record handler have both answered with ids
C1_Witness ==
    \E i, j \in Slots :
        /\ ClaimSucceeded(i) /\ inv[i].handler = "getTaskSuggestions"
        /\ Cardinality(ClaimReturnedIds(i)) = 2
        /\ ClaimSucceeded(j) /\ inv[j].handler = "breakdownTask"

\* C2: an invocation one of whose inserts failed ends with that error and
\* never with a success response, and a failed insert is not tried again:
\* it stays failed, no insert or query is added, the error stays the answer
C2_InsertFailurePropagates ==
    /\ [](\A i \in Slots :
            ClaimInsertFailed(i) =>
                inv[i].pc = "done" /\ inv[i].resp = [ kind |-> "throw", error |-> "DbError" ])
    /\ [][\A i \in Slots :
            ClaimInsertFailed(i) =>
                /\ Len(inv'[i].inserts) = Len(inv[i].inserts)
                /\ inv'[i].queries = inv[i].queries
                /\ inv'[i].resp = inv[i].resp
                /\ \A k \in 1..Len(inv[i].inserts) :
                     inv[i].inserts[k].s = "failed" => inv'[i].inserts[k].s = "failed"]_vars

\* the insert of a single-record handler and one of parallel inserts failed
C2_Witness ==
    \E i, j \in Slots :
        /\ ClaimInsertFailed(i) /\ inv[i].handler = "suggestPriority"
        /\ ClaimInsertFailed(j) /\ inv[j].handler = "getTaskSuggestions"

\* C3: an invocation that ended in an error has left no record in the store
C3_FailsAtomically ==
    \A i \in Slots : ClaimFailed(i) => ClaimRecordsOf(i) = {}

\* getTaskSuggestions ended in the error of one insert while the record of
\* another of its inserts is in the store
C3_PartialRecord ==
    \E i \in Slots :
        /\ inv[i].handler = "getTaskSuggestions"
        /\ inv[i].resp = [ kind |-> "throw", error |-> "DbError" ]
        /\ ClaimRecordsOf(i) # {}

\* C4: a successful estimateTime, suggestPriority, suggestAssignee or
\* breakdownTask has written exactly one record, owned by the caller and
\* tagged with the handler's type; once no estimateTime is in flight, a user
\* has as many time_estimation records as successful estimateTime invocations
C4_ExactlyOneRecord ==
    /\ \A i \in Slots :
         ClaimSucceeded(i) /\ inv[i].handler # "getTaskSuggestions" =>
             \E r \in ai_suggestions :
                 /\ ClaimRecordsOf(i) = { r }
                 /\ r.user_id = inv[i].userId
                 /\ r.suggestion_type = ClaimTypeOf(inv[i].handler)
    /\ (\A i \in Slots : inv[i].handler = "estimateTime" => inv[i].pc = "done") =>
         \A u \in { w.id : w \in users } :
             Cardinality({ r \in ai_suggestions :
                             r.user_id = u /\ r.suggestion_type = "time_estimation" })
               = Cardinality({ i \in Slots : /\ inv[i].handler = "estimateTime"
                                             /\ inv[i].userId = u
                                             /\ ClaimSucceeded(i) })

\* every slot held a successful estimateTime of user 1
C4_Witness ==
    \A i \in Slots :
        inv[i].handler = "estimateTime" /\ inv[i].userId = 1 /\ ClaimSucceeded(i)

\* C5: no step of an invocation removes or alters a record of the audit
\* store, and none changes the users, projects, memberships or tasks
C5_OnlyAppends ==
    [][/\ ai_suggestions \subseteq ai_suggestions'
       /\ users' = users
       /\ projects' = projects
       /\ project_members' = project_members
       /\ tasks' = tasks]_vars

\* a record written by one invocation is in the store after a later
\* invocation wrote its own and after another ended in an error
C5_Witness ==
    /\ Cardinality(ai_suggestions) >= 2
    /\ \E i, j \in Slots :
         /\ ClaimSucceeded(i) /\ ClaimRecordsOf(i) # {}
         /\ ClaimFailed(j) /\ ClaimRecordsOf(j) # {}

\* the result inside a stored payload, and the result inside a response
ClaimStoredResult(handler, payload) ==
    CASE handler = "getTaskSuggestions" -> payload
      [] handler = "estimateTime" -> payload.estimation
      [] handler = "suggestPriority" -> payload.suggestion
      [] handler = "suggestAssignee" -> payload.suggestions
      [] handler = "breakdownTask" -> payload.breakdown
ClaimReturnedResult(handler, data) ==
    CASE handler = "estimateTime" -> data.estimation
      [] handler = "suggestPriority" -> ClaimWithout(data, "suggestionId")
      [] handler = "suggestAssignee" -> data.suggestions
      [] handler = "breakdownTask" -> ClaimWithout(data, "suggestionId")

ClaimInsertedIds(i) ==
    { inv[i].inserts[k].id :
        k \in { k \in 1..Len(inv[i].inserts) : inv[i].inserts[k].s = "ok" } }

\* the result an insert of invocation i was to store
ClaimComputed(i, k) ==
    IF inv[i].handler = "getTaskSuggestions" THEN inv[i].result[k]
    ELSE IF inv[i].handler = "estimateTime" THEN JsonEstimation(inv[i].result)
    ELSE inv[i].result

\* C7: however the steps of the invocations interleave, the records of
\* completed inserts have pairwise distinct ids, each is in the store once,
\* with the user, type and result of the invocation that inserted it, and an
\* invocation ends in a database error only if a query of its own was
\* rejected: with a working store every accepted request succeeds
C7_ConcurrentInvocations ==
    /\ \A i, j \in Slots : i # j => ClaimInsertedIds(i) \cap ClaimInsertedIds(j) = {}
    /\ \A i \in Slots : \A k \in 1..Len(inv[i].inserts) :
         inv[i].inserts[k].s = "ok" =>
             /\ \A l \in 1..Len(inv[i].inserts) :
                  l # k /\ inv[i].inserts[l].s = "ok" =>
                      inv[i].inserts[l].id # inv[i].inserts[k].id
             /\ \E r \in ai_suggestions :
                  /\ r.id = inv[i].inserts[k].id
                  /\ \A q \in ai_suggestions : q.id = r.id => q = r
                  /\ createdBy[r.id] = i
                  /\ r.user_id = inv[i].userId
                  /\ r.suggestion_type = ClaimTypeOf(inv[i].handler)
                  /\ ClaimStoredResult(inv[i].handler, JsonParse(r.content))
                       = ClaimComputed(i, k)
    /\ \A i \in Slots :
         inv[i].pc = "done" /\ ~ClaimSucceeded(i) =>
             \/ inv[i].resp.error \in { "AppError400", "AppError403" }
             \/ ClaimInsertFailed(i)
             \/ inv[i].inserts = << >> /\ inv[i].queries = 1

\* two invocations in flight together have both succeeded: the one that
\* arrived later got a smaller id than one of the earlier one's records
C7_Witness ==
    \E i, j \in Slots :
        /\ i < j /\ ClaimSucceeded(i) /\ ClaimSucceeded(j)
        /\ \E a \in ClaimInsertedIds(i), b \in ClaimInsertedIds(j) : b < a

ClaimNoTitle(req) == req.title \in { Undefined, Null, Str(<< >>) }
ClaimNoProject(req) == req.projectId \in { Undefined, Null }
ClaimProjectNamed(req, p) == req.projectId \in { Num(p.id), Str(<<ToString(p.id)>>) }

\* the request is one the handler must answer with 400
ClaimInvalid(i) ==
    /\ inv[i].handler \in { "estimateTime", "suggestPriority", "suggestAssignee",
                            "breakdownTask" }
    /\ \/ ClaimNoTitle(inv[i].req)
       \/ inv[i].handler = "suggestAssignee" /\ ClaimNoProject(inv[i].req)

\* the request names a project the caller is not a member of
ClaimNotMember(i) ==
    /\ inv[i].handler \in { "getTaskSuggestions", "suggestPriority",
                            "suggestAssignee", "breakdownTask" }
    /\ \E p \in projects :
         /\ ClaimProjectNamed(inv[i].req, p)
         /\ ~\E m \in project_members :
               m.project_id = p.id /\ m.user_id = inv[i].userId

ClaimNoEffect(i) ==
    /\ inv[i].result = NotCalled
    /\ inv[i].inserts = << >>
    /\ ClaimRecordsOf(i) = {}

\* C8: a request without a title (for suggestAssignee, also one without a
\* projectId) is answered 400 with no query made; a request that names a
\* project the caller is no member of is answered 403, unless the membership
\* query itself was rejected; in both cases no result was computed and the
\* invocation has no record in the store
C8_RejectedHasNoEffect ==
    \A i \in Slots :
        /\ ClaimInvalid(i) =>
             /\ inv[i].resp = [ kind |-> "throw", error |-> "AppError400" ]
             /\ inv[i].queries = 0
             /\ ClaimNoEffect(i)
        /\ ~ClaimInvalid(i) /\ ClaimNotMember(i) =>
             /\ \/ inv[i].resp = [ kind |-> "throw", error |-> "AppError403" ]
                \/ inv[i].resp = [ kind |-> "throw", error |-> "DbError" ]
                   /\ inv[i].queries = 1
             /\ ClaimNoEffect(i)

\* a request with an empty title that names a foreign project was answered
\* 400, and a titled request that names a foreign project was answered 403
C8_Witness ==
    \E i, j \in Slots :
        /\ ClaimInvalid(i) /\ ClaimNotMember(i) /\ inv[i].pc = "done"
        /\ inv[i].req.title = Str(<< >>)
        /\ ~ClaimInvalid(j) /\ ClaimNotMember(j)
        /\ inv[j].resp = [ kind |-> "throw", error |-> "AppError403" ]

\* the caller of invocation i belongs to at least one project
ClaimHasProject(i) == \E m \in project_members : m.user_id = inv[i].userId

\* C22: for an integer limit >= 0 and a caller with at least one project,
\* getTaskSuggestions returns k <= limit suggestions and has stored exactly
\* k records of type 'task' owned by the caller, one per returned
\* suggestion, each suggestion carrying the id of its own record, the ids
\* pairwise distinct
C22_OneRecordPerSuggestion ==
    \A i \in Slots :
        ( /\ inv[i].handler = "getTaskSuggestions" /\ ClaimSucceeded(i)
          /\ ClaimHasProject(i)
          /\ inv[i].req.limit.t = "num" /\ inv[i].req.limit.v >= 0 ) =>
            LET returned == ClaimData(i).suggestions
            IN  /\ Len(returned) <= inv[i].req.limit.v
                /\ Cardinality(ClaimRecordsOf(i)) = Len(returned)
                /\ \A r \in ClaimRecordsOf(i) :
                      r.suggestion_type = "task" /\ r.user_id = inv[i].userId
                /\ \A k \in 1..Len(returned) :
                      \E r \in ClaimRecordsOf(i) :
                          /\ r.id = returned[k].id
                          /\ JsonParse(r.content) = ClaimWithout(returned[k], "id")
                /\ \A k, l \in 1..Len(returned) :
                      k # l => returned[k].id # returned[l].id

\* limit 0 was answered with no suggestion and no record, limit 2 with two
\* suggestions whose records were committed in the reverse order
C22_Witness ==
    \E i, j \in Slots :
        /\ inv[i].handler = "getTaskSuggestions" /\ ClaimSucceeded(i)
        /\ inv[i].req.limit = Num(0) /\ ClaimHasProject(i)
        /\ ClaimData(i).suggestions = << >> /\ ClaimRecordsOf(i) = {}
        /\ inv[j].handler = "getTaskSuggestions" /\ ClaimSucceeded(j)
        /\ inv[j].req.limit = Num(2)
        /\ Len(ClaimData(j).suggestions) = 2
        /\ ClaimData(j).suggestions[1].id > ClaimData(j).suggestions[2].id

\* the tasks assigned to a user that are neither done nor cancelled
ClaimActiveTasks(userId) ==
    { t \in tasks : t.assigned_to = userId /\ t.status \notin { "done", "cancelled" } }
\* invocation i is a suggestAssignee that ranked its roster
ClaimRanked(i) == inv[i].handler = "suggestAssignee" /\ Len(inv[i].inserts) > 0

\* C25: the active-task count the Assignee Ranker uses for a candidate, in
\* the workload penalty and in workloadStatus, is the number of tasks
\* assigned to the candidate whose status is neither done nor cancelled
C25_ActiveCountExcludesDoneCancelled ==
    \A i \in Slots :
        ClaimRanked(i) =>
            \A k \in 1..Len(inv[i].result) :
                inv[i].result[k].reasons[1]
                  = << "Current workload",
                       Cardinality(ClaimActiveTasks(inv[i].result[k].user.id)) >>

\* alice has one task in review and is ranked with a workload of 0 tasks
C25_InReviewNotCounted ==
    \E i \in Slots :
        /\ ClaimRanked(i)
        /\ \E k \in 1..Len(inv[i].result) :
              /\ inv[i].result[k].user.id = 1
              /\ inv[i].result[k].reasons[1] = << "Current workload", 0 >>
              /\ \E t \in ClaimActiveTasks(1) : t.status = "in_review"

\* invocation i ran its generator
ClaimGenerated(i) == Len(inv[i].inserts) > 0
\* invocations i and j are the same invocation: handler, caller and input
ClaimSameInvocation(i, j) ==
    /\ inv[i].handler = inv[j].handler
    /\ inv[i].userId = inv[j].userId
    /\ inv[i].req = inv[j].req

C27_TagsAreDeclared ==
    /\ \A i \in Slots : \A k \in 1..Len(inv[i].inserts) :
          inv[i].inserts[k].s = "pending" =>
              inv[i].inserts[k].row.suggestion_type \in suggestionTypes
    /\ \A r \in ai_suggestions : r.suggestion_type \in suggestionTypes

\* estimateTime has started an insert tagged time_estimation and
\* getTaskSuggestions one tagged task
C27_UndeclaredTags ==
    \E i, j \in Slots :
        /\ inv[i].handler = "estimateTime" /\ Len(inv[i].inserts) = 1
        /\ inv[i].inserts[1].s = "pending"
        /\ inv[i].inserts[1].row.suggestion_type = "time_estimation"
        /\ inv[j].handler = "getTaskSuggestions" /\ Len(inv[j].inserts) > 0
        /\ inv[j].inserts[1].s = "pending"
        /\ inv[j].inserts[1].row.suggestion_type = "task"

\* C30: every record of the audit store is owned by the authenticated
\* caller of the invocation that created it; it has a project id only if
\* that invocation named that project and its caller is a member of it, the
\* check the handler made before; a record of estimateTime has no project id
C30_OwnerAndProjectOfRecord ==
    \A r \in ai_suggestions :
        LET v == inv[createdBy[r.id]]
        IN  /\ r.user_id = v.userId
            /\ r.project_id # Null =>
                  /\ Truthy(v.req.projectId)
                  /\ ToNumber(r.project_id) = ToNumber(v.req.projectId)
                  /\ \E m \in project_members :
                        /\ m.user_id = v.userId
                        /\ Num(m.project_id) = ToNumber(r.project_id)
                  /\ v.queries >= 1
            /\ v.handler = "estimateTime" => r.project_id = Null

\* the store holds a task suggestion of alice's for project 1, which she
\* named as '1' and is a member of, next to a record of her breakdown, which
\* named project 0 and carries no project id
C30_Witness ==
    \E r, q \in ai_suggestions :
        /\ r.user_id = 1 /\ r.suggestion_type = "task" /\ r.project_id = Num(1)
        /\ inv[createdBy[r.id]].req.projectId = Str(<<"1">>)
        /\ q.user_id = 1 /\ q.suggestion_type = "task_breakdown"
        /\ q.project_id = Null
        /\ inv[createdBy[q.id]].req.projectId = Num(0)

----------------------------------------------------------------------------
(* Claims about the Priority Scorer *)

\* the contributions of an input as the specification names them
ClaimText(in) == ToLowerCase(Combined(in.title, in.description))
ClaimHasUrgent(in) == \E k \in urgentKeywords : Includes(ClaimText(in), k)
ClaimHasHigh(in) == \E k \in highKeywords : Includes(ClaimText(in), k)
ClaimHasLow(in) == \E k \in lowKeywords : Includes(ClaimText(in), k)
ClaimNoDueDate(in) == in.dueDate \in { Undefined, Null }
ClaimFlag(in) ==
    IF in.projectContext.t = "row" /\ in.projectContext.status = "urgent"
    THEN 1 ELSE 0

\* keyword tier: low 0 < none 1 < high 2 < urgent 3
ClaimKeywordTier(in) ==
    IF ClaimHasUrgent(in) THEN 3
    ELSE IF ClaimHasHigh(in) THEN 2
    ELSE IF ClaimHasLow(in) THEN 0
    ELSE 1

\* due-date band, ordered by its adjustment: beyond 30 days 0 < none 1 <
\* under 7 days 2 < under 3 days 3 < under 1 day 4
ClaimDueBand(in) ==
    IF in.dueDate.t # "date" THEN 1
    ELSE IF in.dueDate.v < 24 THEN 4
    ELSE IF in.dueDate.v < 72 THEN 3
    ELSE IF in.dueDate.v < 168 THEN 2
    ELSE IF in.dueDate.v > 720 THEN 0
    ELSE 1

\* C9: with no project-urgency flag, an urgent keyword and no due date, or no
\* keyword match and a due date less than 24 hours away, give score 80 and
\* category urgent
C9_UrgentAt80 ==
    (gout # NotCalled /\ ClaimFlag(gin) = 0) =>
        /\ (ClaimHasUrgent(gin) /\ ClaimNoDueDate(gin)) =>
              (gout.score = 80 /\ gout.priority = "urgent")
        /\ ( /\ ~ClaimHasUrgent(gin) /\ ~ClaimHasHigh(gin) /\ ~ClaimHasLow(gin)
             /\ gin.dueDate.t = "date" /\ gin.dueDate.v < 24 ) =>
              (gout.score = 80 /\ gout.priority = "urgent")

C9_Witness ==
    /\ gout # NotCalled
    /\ ClaimFlag(gin) = 0
    /\ ~ClaimHasUrgent(gin) /\ ~ClaimHasHigh(gin) /\ ~ClaimHasLow(gin)
    /\ gin.dueDate = DateStr(23)
    /\ gout.score = 80

\* o is gin with one contribution raised (or equal) and the other two the same
ClaimRaisedOnce(a, o) ==
    \/ /\ ClaimKeywordTier(a) <= ClaimKeywordTier(o)
       /\ ClaimDueBand(a) = ClaimDueBand(o) /\ ClaimFlag(a) = ClaimFlag(o)
    \/ /\ ClaimDueBand(a) <= ClaimDueBand(o)
       /\ ClaimKeywordTier(a) = ClaimKeywordTier(o) /\ ClaimFlag(a) = ClaimFlag(o)
    \/ /\ ClaimFlag(a) <= ClaimFlag(o)
       /\ ClaimKeywordTier(a) = ClaimKeywordTier(o)
       /\ ClaimDueBand(a) = ClaimDueBand(o)

\* C10: raising one contribution (keyword tier, due-date band, urgency flag)
\* of an input never lowers the score
C10_Monotonic ==
    gout # NotCalled =>
        \A o \in PriorityInputs :
            ClaimRaisedOnce(gin, o) =>
                PriorityScore(o.title, o.description, o.dueDate,
                    o.projectContext, 0) >= gout.score

C10_Witness ==
    /\ gout # NotCalled
    /\ ClaimKeywordTier(gin) = 0 /\ ClaimDueBand(gin) = 0 /\ ClaimFlag(gin) = 0
    /\ gout.score = 20
    /\ \E o \in PriorityInputs :
          /\ ClaimKeywordTier(o) = 1 /\ ClaimDueBand(o) = 0 /\ ClaimFlag(o) = 0
          /\ PriorityScore(o.title, o.description, o.dueDate,
                 o.projectContext, 0) = 40

\* C11: an input whose text contains an urgent keyword is categorised high
\* or urgent, whatever its due date and project context
C11_UrgentKeywordHighOrUrgent ==
    (gout # NotCalled /\ ClaimHasUrgent(gin)) =>
        gout.priority \in { "high", "urgent" }

\* an urgent keyword with a due date beyond 30 days: score 70, category high
C11_Witness ==
    /\ gout # NotCalled
    /\ ClaimHasUrgent(gin) /\ ClaimFlag(gin) = 0
    /\ gin.dueDate = DateStr(721)
    /\ gout.score = 70 /\ gout.priority = "high"

\* C12 as stated: among the inputs the scorer is given, one scores above 100
\* and one scores below 0
C12_SomeScoreOutsideBothEnds ==
    gin \in PriorityInputs =>
        /\ \E o \in PriorityInputs :
              PriorityScore(o.title, o.description, o.dueDate, o.projectContext, 0) > 100
        /\ \E o \in PriorityInputs :
              PriorityScore(o.title, o.description, o.dueDate, o.projectContext, 0) < 0

\* C12 as the code has it: the score is not clamped above (an urgent keyword
\* with a due date under one day and no flag gives 110, category urgent, and
\* 125 with the flag), but no input scores below 20: the lowest score is
\* 50 - 20 - 10
C12_ScoreRange ==
    gout # NotCalled =>
        /\ gout.score >= 20 /\ gout.score <= 125
        /\ (ClaimHasUrgent(gin) /\ ClaimDueBand(gin) = 4) =>
              /\ gout.score = 110 + 15 * ClaimFlag(gin)
              /\ gout.priority = "urgent"
        /\ (ClaimKeywordTier(gin) = 0 /\ ClaimDueBand(gin) = 0) =>
              gout.score = 20 + 15 * ClaimFlag(gin)

\* the lowest score: a low keyword, a due date beyond 30 days, no flag
C12_Witness ==
    /\ gout # NotCalled
    /\ ClaimKeywordTier(gin) = 0 /\ ClaimDueBand(gin) = 0 /\ ClaimFlag(gin) = 0
    /\ gout.score = 20 /\ gout.priority = "low"

\* C24: only the first matching keyword set counts, urgent before high
\* before low: the keyword contribution is +30 if an urgent keyword occurs,
\* else +20 if a high keyword occurs, else -20 if a low keyword occurs, else
\* 0, and contributions of different sets are never summed
C24_FirstMatchingSetOnly ==
    gout # NotCalled =>
        gout.score - 50 - 10 * (ClaimDueBand(gin) - 1) - 15 * ClaimFlag(gin)
          = (IF ClaimHasUrgent(gin) THEN 30
             ELSE IF ClaimHasHigh(gin) THEN 20
             ELSE IF ClaimHasLow(gin) THEN 0 - 20
             ELSE 0)

\* a text with an urgent, a high and a low keyword, no due date and no
\* flag, scored 80
C24_Witness ==
    /\ gout # NotCalled
    /\ ClaimHasUrgent(gin) /\ ClaimHasHigh(gin) /\ ClaimHasLow(gin)
    /\ ClaimNoDueDate(gin) /\ ClaimFlag(gin) = 0
    /\ gout.score = 80

----------------------------------------------------------------------------
(* Claims about the Time Estimator *)

\* C13: the confidence is 0.6 for a sample of at most 10 tasks and 0.8 for
\* a larger one, whatever the title, description, priority and task type
C13_ConfidenceBySampleSize ==
    gout # NotCalled =>
        gout.confidence = (IF Len(gin.historicalTasks) <= 10 THEN 60 ELSE 80)

\* an estimate from exactly 10 tasks whose total is not even a number
C13_Witness ==
    /\ gout # NotCalled
    /\ Len(gin.historicalTasks) = 10
    /\ gin.priority = Str(<<"constructor">>)
    /\ gout.confidence = 60

\* the number of words of the combined text, counted from the input
ClaimWordsOf(v) ==
    CASE v = Undefined -> 1
      [] v = Str(<< >>) -> 1
      [] v = Str(<<"<w50>">>) -> 50
      [] v = Str(<<"<w51>">>) -> 51
      [] v = Str(<<"<w101>">>) -> 101
      [] OTHER -> 3
ClaimBaseHours(in) ==
    LET words == ClaimWordsOf(in.title) + ClaimWordsOf(in.description)
    IN  4 + (IF words > 50 THEN 2 ELSE 0) + (IF words > 100 THEN 2 ELSE 0)

\* the factor of a priority or task type in hundredths, 1.0 when unknown
ClaimPriorityFactor(p) ==
    CASE p = Str(<<"low">>) -> 80
      [] p = Str(<<"high">>) -> 130
      [] p = Str(<<"urgent">>) -> 150
      [] OTHER -> 100
ClaimTypeFactor(t) ==
    CASE t = Str(<<"bug">>) -> 70
      [] t = Str(<<"feature">>) -> 120
      [] t = Str(<<"research">>) -> 150
      [] t = Str(<<"documentation">>) -> 80
      [] t = Str(<<"testing">>) -> 90
      [] OTHER -> 100

\* C14: with an empty sample the total is base x priority factor x type
\* factor, an unknown priority or type counting as 1.0; a title of at most
\* 50 words with priority high and type feature gives 6.24 hours, reported
\* as 6 hours 14 minutes with confidence 0.6
C14_EmptySampleTotal ==
    (gout # NotCalled /\ gin.historicalTasks = << >>) =>
        /\ gout.totalHours =
             Num((ClaimBaseHours(gin) * ClaimPriorityFactor(gin.priority)
                    * ClaimTypeFactor(gin.taskType)) \div 10)
        /\ ( /\ ClaimWordsOf(gin.title) <= 50
             /\ gin.priority = Str(<<"high">>)
             /\ gin.taskType = Str(<<"feature">>) ) =>
               /\ gout.totalHours = Num(6240)
               /\ gout.hours = Num(6) /\ gout.minutes = Num(14)
               /\ gout.confidence = 60

\* the priority "constructor" is in no factor table and the total is not a
\* number
C14_UnknownPriorityNotANumber ==
    /\ gout # NotCalled
    /\ gin.historicalTasks = << >>
    /\ gin.priority = Str(<<"constructor">>) /\ gin.taskType = Str(<<"feature">>)
    /\ gout.totalHours = NaN /\ gout.hours = NaN /\ gout.minutes = NaN

----------------------------------------------------------------------------
(* Claims about the Assignee Ranker *)

\* C15: every returned score lies in [0, 100], whatever the candidate's
\* counts (very large ones included), role and number of matched skills
C15_ScoreWithinBounds ==
    gout # NotCalled =>
        \A i \in 1..Len(gout.v) : gout.v[i].score >= 0 /\ gout.v[i].score <= 100

\* both ends of the clamp act in one result: gus with three matched skills
\* is cut to 100, dan with a million active tasks is raised to 0
C15_Witness ==
    /\ gout # NotCalled
    /\ Len(gin.skillsRequired) = 3
    /\ \E i \in 1..Len(gout.v) :
          gout.v[i].user.id = 7 /\ gout.v[i].score = 100
    /\ \E i \in 1..Len(gout.v) :
          gout.v[i].user.id = 4 /\ gout.v[i].score = 0

\* the position of the candidate with this id in the roster given
ClaimRosterIndex(id) ==
    CHOOSE k \in 1..Len(gin.members) : gin.members[k].id = id
ClaimReturnedUsers == { gout.v[i].user.id : i \in 1..Len(gout.v) }
ClaimRoleBonus(role) ==
    IF role = "owner" THEN 10 ELSE IF role = "admin" THEN 5 ELSE 0
\* the required skills, by position, that pass at least one of the checks
ClaimSkillsInText ==
    { k \in 1..Len(gin.skillsRequired) :
        Includes(ToLowerCase(Combined(gin.title, gin.description)),
                 ToLowerCase(gin.skillsRequired[k])) }
ClaimSkillsInName(m) ==
    { k \in 1..Len(gin.skillsRequired) :
        Includes(ToLowerCase(m.username), ToLowerCase(gin.skillsRequired[k])) }
\* the score of a candidate whose skill bonus is 10 x matched
ClaimScoreWith(m, matched) ==
    Max(0, Min(100, 50 - 5 * m.activeTaskCount + Min(2 * m.totalTaskCount, 20)
                       + ClaimRoleBonus(m.role) + 10 * matched))
ClaimScoreOf(m) ==
    ClaimScoreWith(m, Cardinality(ClaimSkillsInText \cup ClaimSkillsInName(m)))

\* C16: min(5, roster size) candidates are returned in non-increasing score
\* order, no omitted candidate scores higher than a returned one, equal
\* scores keep their roster order; with no skills required A (0 active,
\* 50 total, member) scores 70, B (10 active, 5 total, member) scores 10 and
\* A is ranked above B
C16_TopFiveStableDescending ==
    gout # NotCalled =>
        /\ Len(gout.v) = Min(5, Len(gin.members))
        /\ \A i \in 1..Len(gout.v) : \A j \in 1..Len(gout.v) :
              i < j =>
                /\ gout.v[i].score >= gout.v[j].score
                /\ gout.v[i].score = gout.v[j].score =>
                      ClaimRosterIndex(gout.v[i].user.id)
                        < ClaimRosterIndex(gout.v[j].user.id)
        /\ \A k \in 1..Len(gin.members) :
              gin.members[k].id \notin ClaimReturnedUsers =>
                \A i \in 1..Len(gout.v) :
                    ClaimScoreOf(gin.members[k]) <= gout.v[i].score
        /\ gin.skillsRequired = << >> =>
              \A i \in 1..Len(gout.v) :
                /\ gout.v[i].user.id = 1 => gout.v[i].score = 70
                /\ gout.v[i].user.id = 2 =>
                      /\ gout.v[i].score = 10
                      /\ \A j \in 1..Len(gout.v) : gout.v[j].user.id = 1 => j < i

\* a roster of seven with no skills required: five are returned, the three
\* candidates scoring 70 in roster order eve, fay, ann, then B behind A
C16_Witness ==
    /\ gout # NotCalled
    /\ Len(gin.members) = 7 /\ gin.skillsRequired = << >>
    /\ Len(gout.v) = 5
    /\ gout.v[1].user.id = 7 /\ gout.v[1].score = 80
    /\ gout.v[2].user.id = 5 /\ gout.v[3].user.id = 6 /\ gout.v[4].user.id = 1
    /\ gout.v[2].score = 70 /\ gout.v[4].score = 70
    /\ gout.v[5].user.id = 3 /\ gout.v[5].score = 60

\* C17 as stated: the skill bonus is not deduplicated across its two checks,
\* a required skill found both in the combined text and in the candidate's
\* name counts once per check
C17_SkillCountedPerCheck ==
    gout # NotCalled =>
        \A i \in 1..Len(gout.v) :
            LET m == gin.members[ClaimRosterIndex(gout.v[i].user.id)]
            IN  gout.v[i].score =
                  ClaimScoreWith(m, Cardinality(ClaimSkillsInText)
                                      + Cardinality(ClaimSkillsInName(m)))

\* C17 as the code has it: each entry of the required skills that passes
\* at least one of the two checks adds 10 exactly once, also when it
\* passes both
C17_SkillCountedOnce ==
    gout # NotCalled =>
        \A i \in 1..Len(gout.v) :
            LET m == gin.members[ClaimRosterIndex(gout.v[i].user.id)]
            IN  /\ gout.v[i].score = ClaimScoreOf(m)
                /\ ( /\ Len(gin.skillsRequired) = 1
                     /\ ClaimSkillsInText \cap ClaimSkillsInName(m) # {}
                     /\ ClaimScoreWith(m, 0) > 0 /\ ClaimScoreWith(m, 0) < 80 ) =>
                       gout.v[i].score = ClaimScoreWith(m, 0) + 10

\* the skill "gus" is in the description and in the name of candidate gus,
\* whose score goes from 80 to 90, short of the clamp
C17_Witness ==
    /\ gout # NotCalled
    /\ gin.skillsRequired = << <<"gus">> >>
    /\ gin.description = Str(<<"ask", " ", "gus">>)
    /\ \E i \in 1..Len(gout.v) :
          gout.v[i].user.id = 7 /\ gout.v[i].score = 90

----------------------------------------------------------------------------
(* Claims about the Task Decomposer *)

ClaimBreakdownText == ToLowerCase(Combined(gin.title, gin.description))
\* the number of contextual triggers the text fires
ClaimTriggers ==
    (IF Includes(ClaimBreakdownText, <<"api">>)
        \/ Includes(ClaimBreakdownText, <<"backend">>) THEN 1 ELSE 0)
    + (IF Includes(ClaimBreakdownText, <<"ui">>)
          \/ Includes(ClaimBreakdownText, <<"frontend">>) THEN 1 ELSE 0)
    + (IF Includes(ClaimBreakdownText, <<"data">>) THEN 1 ELSE 0)
\* the target count of a complexity, 5 when it is unknown
ClaimTarget ==
    CASE gin.complexity = Str(<<"low">>) -> 3
      [] gin.complexity = Str(<<"medium">>) -> 5
      [] gin.complexity = Str(<<"high">>) -> 7
      [] gin.complexity = Str(<<"very_high">>) -> 9
      [] OTHER -> 5
ClaimGenericPool == { commonSubtasks[i] : i \in 1..Len(commonSubtasks) }

\* C18: exactly min(target, 3k + 7) subtasks are returned, target being
\* 3/5/7/9 for low/medium/high/very_high and 5 for an unknown complexity,
\* k the number of contextual triggers fired
C18_SubtaskCountExact ==
    gout # NotCalled =>
        Len(gout.subtasks) = Min(ClaimTarget, 3 * ClaimTriggers + 7)

\* the complexity "constructor" is in no table, one trigger fired, and no
\* subtask is returned
C18_UnknownComplexityEmpty ==
    /\ gout # NotCalled
    /\ gin.complexity = Str(<<"constructor">>)
    /\ ClaimTriggers = 1
    /\ gout.subtasks = << >>

\* C19: totalEstimatedHours is the sum of estimatedHours over exactly the
\* returned subtasks, also when several triggers fire and the list is
\* truncated to the target count
C19_TotalIsSumOfReturned ==
    gout # NotCalled => gout.totalEstimatedHours = SumHours(gout.subtasks)

\* complexity low with two triggers: three subtasks of 8 hours together
\* are returned with a total of 16
C19_TotalCountsDropped ==
    /\ gout # NotCalled
    /\ gin.complexity = Str(<<"low">>) /\ ClaimTriggers = 2
    /\ Len(gout.subtasks) = 3 /\ SumHours(gout.subtasks) = 8
    /\ gout.totalEstimatedHours = 16

\* C20: complexity low and no trigger give exactly 3 subtasks, each from
\* the generic pool with hours in 1..4 and a priority among low, medium,
\* high; in every result the returned titles are pairwise distinct
C20_GenericDrawsDistinct ==
    gout # NotCalled =>
        /\ (gin.complexity = Str(<<"low">>) /\ ClaimTriggers = 0) =>
              /\ Len(gout.subtasks) = 3
              /\ \A i \in 1..3 :
                    /\ gout.subtasks[i].title \in ClaimGenericPool
                    /\ gout.subtasks[i].estimatedHours \in 1..4
                    /\ gout.subtasks[i].priority \in { "low", "medium", "high" }
        /\ \A i \in 1..Len(gout.subtasks) : \A j \in 1..Len(gout.subtasks) :
              i # j => gout.subtasks[i].title # gout.subtasks[j].title

\* every draw is 0: the first remaining item is taken three times in a row
\* and the three titles differ
C20_Witness ==
    /\ gout # NotCalled
    /\ gin.complexity = Str(<<"low">>) /\ ClaimTriggers = 0
    /\ \A k \in 1..MaxDraws : gin.rnd[k] = 0
    /\ Len(gout.subtasks) = 3
    /\ gout.subtasks[1].title = <<"Research and planning">>
    /\ gout.subtasks[2].title = <<"Design and architecture">>
    /\ gout.subtasks[3].title = <<"Implementation">>
    /\ gout.subtasks[3].estimatedHours = 1 /\ gout.subtasks[3].priority = "low"

----------------------------------------------------------------------------
(* Claims about the exploratory suggestions *)

\* C21: task-suggestions never returns more than 10 suggestions, whatever
\* limit the caller passes
C21_AtMostTenSuggestions ==
    gout # NotCalled => Len(gout.v) <= 10

\* limit 12 with a context naming both a bug and something new: the two
\* contextual suggestions and all ten common tasks are returned
C21_TwelveSuggestions ==
    /\ gout # NotCalled
    /\ gin.limit = Num(12) /\ gin.context = <<"new", " ", "Bug">>
    /\ Len(gout.v) = 12
    /\ gout.v[1].title = <<"Debug and fix reported issues">>
    /\ gout.v[2].title = <<"Implement new feature">>

----------------------------------------------------------------------------
(* Claims about the AI router *)

\* the handler each documented endpoint names
ClaimDocumented ==
    { [ method |-> "GET", path |-> "/task-suggestions", handler |-> "getTaskSuggestions" ],
      [ method |-> "POST", path |-> "/estimate-time", handler |-> "estimateTime" ],
      [ method |-> "POST", path |-> "/suggest-priority", handler |-> "suggestPriority" ],
      [ method |-> "POST", path |-> "/suggest-assignee", handler |-> "suggestAssignee" ],
      [ method |-> "POST", path |-> "/breakdown-task", handler |-> "breakdownTask" ] }
ClaimValidToken ==
    gin.token.t = "jwt" /\ \E u \in users : u.id = gin.token.id /\ u.is_active

\* C23: with a valid token each documented endpoint reaches its handler:
\* GET /ai/task-suggestions getTaskSuggestions, POST /ai/estimate-time
\* estimateTime, POST /ai/suggest-priority suggestPriority, POST
\* /ai/suggest-assignee suggestAssignee, POST /ai/breakdown-task
\* breakdownTask; without a valid token no handler is reached and the
\* answer is 401
C23_DocumentedEndpointsDispatched ==
    gout # NotCalled =>
        /\ ClaimValidToken =>
              \A d \in ClaimDocumented :
                  (gin.method = d.method /\ gin.path = d.path) =>
                      gout.handler = d.handler
        /\ ~ClaimValidToken => gout = [ status |-> 401, handler |-> "none" ]

\* an authenticated POST /api/ai/estimate-time is answered by the 404
\* handler
C23_DocumentedEndpointNotFound ==
    /\ gout # NotCalled
    /\ gin.method = "POST" /\ gin.path = "/estimate-time"
    /\ gin.token = [ t |-> "jwt", id |-> 1 ]
    /\ gout = [ status |-> 404, handler |-> "none" ]

\* C28: whenever the blended total is a non-negative number, hours and
\* minutes are a valid split of it: hours = floor(total), 0 <= minutes <= 59
\* and hours * 60 + minutes is the total rounded to the nearest minute
C28_ValidSplit ==
    (gout # NotCalled /\ gout.totalHours.t = "num" /\ gout.totalHours.v >= 0) =>
        /\ gout.hours = Num(gout.totalHours.v \div MilliPerHour)
        /\ gout.minutes.v >= 0 /\ gout.minutes.v <= 59
        /\ gout.hours.v * 60 + gout.minutes.v
             = (gout.totalHours.v * 60 + MilliPerHour \div 2) \div MilliPerHour

\* 6.24 hours blended with a sample averaging 1.75 hours is 3.995 hours,
\* reported as 3 hours 60 minutes
C28_SixtyMinutes ==
    /\ gout # NotCalled
    /\ Len(gin.historicalTasks) = 4
    /\ gin.priority = Str(<<"high">>) /\ gin.taskType = Str(<<"feature">>)
    /\ gout.totalHours = Num(3995)
    /\ gout.hours = Num(3) /\ gout.minutes = Num(60)

\* the titles of the working list
ClaimTitles(subtasks) == { subtasks[k].title : k \in 1..Len(subtasks) }

\* C29: the fill loop always ends and a result is returned, for every text,
\* complexity and sequence of draws: an iteration that stays in the loop adds
\* one generic item that was not in the list, and at most seven iterations
\* add an item
C29_FillLoopTerminates ==
    /\ <>(gout.t = "returned")
    /\ [][(gout.t = "loop" /\ gout'.t = "loop") =>
            /\ Len(gout'.subtasks) = Len(gout.subtasks) + 1
            /\ SubSeq(gout'.subtasks, 1, Len(gout.subtasks)) = gout.subtasks
            /\ gout'.subtasks[Len(gout'.subtasks)].title \in ClaimGenericPool
            /\ gout'.subtasks[Len(gout'.subtasks)].title
                  \notin ClaimTitles(gout.subtasks)]_vars
    /\ [](gout.draws <= 3 * 7)
    /\ [](gout.t = "returned" =>
            LET whole == generateTaskBreakdown(gin.title, gin.description,
                                               gin.complexity, gin.rnd)
            IN  /\ gout.result.subtasks = whole.subtasks
                /\ gout.result.totalEstimatedHours = whole.totalEstimatedHours)

\* complexity very_high with no trigger: seven iterations added the seven
\* generic items, the pool was exhausted short of the target of 9 and the
\* result was returned
C29_Witness ==
    /\ gout.t = "returned"
    /\ gin.complexity = Str(<<"very_high">>) /\ ClaimTriggers = 0
    /\ gout.draws = 21
    /\ Len(gout.result.subtasks) = 7
    /\ ClaimTitles(gout.result.subtasks) = ClaimGenericPool

====
